---------------------------- MODULE Spec2Model ----------------------------
(***************************************************************************)
(* Model of the request-authorization core of nest-template:               *)
(*   - the refresh-token ledger (AuthService + RefreshTokenRepository),    *)
(*     with concurrent calls interleaved at their awaits;                  *)
(*   - the guard pipeline JwtAuthGuard -> IpRestrictionGuard ->            *)
(*     RolesGuard -> ScopesGuard registered by AuthModule.                 *)
(* Strings whose characters matter (scopes) are sequences of one-character *)
(* strings; time is a natural-number clock; an IPv4 address is its four    *)
(* octets and a 32-bit integer is its bits, least significant first.       *)
(***************************************************************************)
EXTENDS Integers, Sequences, FiniteSets, TLC

VARIABLES
    ledger,      \* refresh_tokens table: set of RefreshToken rows
    now,         \* the clock read by new Date()
    nextToken,   \* next fresh value of randomBytes(32).toString('hex')
    logins,      \* number of logins and signups so far
    call,        \* in-flight AuthService calls, one record per call slot
    req,         \* pipeline: the request and its endpoint's metadata
    user,        \* pipeline: request.user
    pos,         \* pipeline: index of the next guard to run (0: no request)
    outcome,     \* pipeline: "none" | "running" | "allowed" | an error code
    evaluated,   \* pipeline: the guards that were evaluated, in order
    verifyCalls, \* pipeline: number of token verifications performed
    ipLookups,   \* pipeline: number of allowlist lookups performed
    userAllowedIp, \* user_allowed_ips table: set of UserAllowedIp rows
    args,        \* the arguments of a service call under study
    result       \* what that call returned

ledgerVars == <<ledger, now, nextToken, logins, call>>
pipeVars == <<req, user, pos, outcome, evaluated, verifyCalls, ipLookups>>
svcVars == <<userAllowedIp, args, result>>
vars == <<ledger, now, nextToken, logins, call,
          req, user, pos, outcome, evaluated, verifyCalls, ipLookups,
          userAllowedIp, args, result>>

(***************************************************************************)
(* Bounds of the model.                                                    *)
(***************************************************************************)
MaxCalls == 2
MaxLogins == 1
MaxTime == 2
MaxHeaderLen == 3
MaxDigits == 9

\* the configured refresh-token lifetime; the clock counts in this unit
RefreshLifetime == 1

(***************************************************************************)
(* Refresh-token ledger                                                    *)
(***************************************************************************)
NULL == -1
UnknownToken == 0
Users == {"u1", "u2"}
Calls == 1..MaxCalls

\* RefreshTokenRepository.findByToken / findByTokenWithUser
FindByToken(t) == {r \in ledger : r.token = t}

\* AuthService.calculateExpirationDate applied to the configured lifetime
CalculateExpirationDate == now + RefreshLifetime

\* the row written by prisma.refreshToken.update({where: {token}, data: {revokedAt: new Date()}})
RevokedRow(r) == [r EXCEPT !.revokedAt = now]

\* RefreshTokenRepository.revokeToken on an existing row
RevokeToken(t) == {IF r.token = t THEN RevokedRow(r) ELSE r : r \in ledger}

\* mutant of RevokeAllMatches: the revokedAt: null condition is dropped
RevokeAllMatches_AnyState(r, u) == r.userId = u

\* the where clause of RefreshTokenRepository.revokeAllUserTokens
RevokeAllMatches(r, u) == r.userId = u /\ r.revokedAt = NULL

\* RefreshTokenRepository.revokeAllUserTokens
RevokeAllUserTokens(u) ==
    {IF RevokeAllMatches(r, u) THEN RevokedRow(r) ELSE r : r \in ledger}

\* mutant of SweepMatches: every row is deleted
SweepMatches_All(r) == TRUE

\* the where clause of RefreshTokenRepository.deleteExpiredTokens
SweepMatches(r) == r.expiresAt < now \/ r.revokedAt # NULL

\* mutant of CreateRow: the row is owned by a fixed user
CreateRow_FixedOwner(t, u) ==
    [token |-> t, userId |-> "u1", expiresAt |-> CalculateExpirationDate,
     revokedAt |-> NULL]

\* RefreshTokenRepository.create
CreateRow(t, u) ==
    [token |-> t, userId |-> u, expiresAt |-> CalculateExpirationDate,
     revokedAt |-> NULL]

\* AuthService.generateTokens after signing: a fresh random token value is
\* stored for the user
StoreRefreshToken(u) ==
    /\ ledger' = ledger \cup {CreateRow(nextToken, u)}
    /\ nextToken' = nextToken + 1

IdleCall ==
    [op |-> "none", pc |-> "idle", token |-> UnknownToken,
     owner |-> "u1", result |-> "none", newToken |-> UnknownToken,
     wrote |-> FALSE]

\* mutant of RefreshCheck: the revokedAt check is missing
RefreshCheck_NoRevokedCheck(found) ==
    IF found = {} THEN "REFRESH_TOKEN_INVALID"
    ELSE LET r == CHOOSE x \in found : TRUE
         IN IF r.expiresAt < now THEN "REFRESH_TOKEN_EXPIRED" ELSE "valid"

\* mutant of RefreshCheck: expiry is checked before revocation
RefreshCheck_ExpiryFirst(found) ==
    IF found = {} THEN "REFRESH_TOKEN_INVALID"
    ELSE LET r == CHOOSE x \in found : TRUE
         IN IF r.expiresAt < now THEN "REFRESH_TOKEN_EXPIRED"
            ELSE IF r.revokedAt # NULL THEN "REFRESH_TOKEN_REVOKED"
            ELSE "valid"

\* mutant of RefreshCheck: a revocation counts only from the next clock tick
RefreshCheck_RevokedLater(found) ==
    IF found = {} THEN "REFRESH_TOKEN_INVALID"
    ELSE LET r == CHOOSE x \in found : TRUE
         IN IF r.revokedAt # NULL /\ r.revokedAt < now
            THEN "REFRESH_TOKEN_REVOKED"
            ELSE IF r.expiresAt < now THEN "REFRESH_TOKEN_EXPIRED"
            ELSE "valid"

\* the checks of AuthService.refresh on the row it has read
RefreshCheck(found) ==
    IF found = {} THEN "REFRESH_TOKEN_INVALID"
    ELSE LET r == CHOOSE x \in found : TRUE
         IN IF r.revokedAt # NULL THEN "REFRESH_TOKEN_REVOKED"
            ELSE IF r.expiresAt < now THEN "REFRESH_TOKEN_EXPIRED"
            ELSE "valid"

\* token values a client can present: one never minted, and every minted one
Presented == 0..(nextToken - 1)

\* call slots are taken in order
CanStart(c) ==
    call[c].pc = "idle" /\ (IF c = 1 THEN TRUE ELSE call[c - 1].pc # "idle")

\* every token value that can be minted: one per login, one per rotation
MaxTokens == MaxLogins + MaxCalls

\* AuthService.login / signup: generateTokens(user.id)
\* (users are interchangeable in the code: the first to log in is named u1)
Login(u) ==
    /\ logins < MaxLogins
    /\ logins = 0 => u = "u1"
    /\ logins' = logins + 1
    /\ StoreRefreshToken(u)
    /\ UNCHANGED <<now, call>>

\* AuthService.refresh up to its first write: read the row and check it
RefreshRead(c, t) ==
    /\ CanStart(c)
    /\ LET found == FindByToken(t)
           verdict == RefreshCheck(found)
       IN call' = [call EXCEPT ![c] =
              [IdleCall EXCEPT
                 !.op = "refresh", !.token = t,
                 !.owner = IF verdict = "valid"
                           THEN (CHOOSE x \in found : TRUE).userId
                           ELSE "u1",
                 !.pc = IF verdict = "valid" THEN "revoke" ELSE "done",
                 !.result = IF verdict = "valid" THEN "none" ELSE verdict]]
    /\ UNCHANGED <<ledger, now, nextToken, logins>>

\* AuthService.refresh: await revokeToken(refreshToken)
RefreshRevoke(c) ==
    /\ call[c].op = "refresh" /\ call[c].pc = "revoke"
    /\ IF FindByToken(call[c].token) = {}
       THEN /\ call' = [call EXCEPT ![c].pc = "done",
                                    ![c].result = "RECORD_NOT_FOUND",
                                    ![c].owner = "u1"]
            /\ UNCHANGED ledger
       ELSE /\ ledger' = RevokeToken(call[c].token)
            /\ call' = [call EXCEPT ![c].pc = "generate", ![c].wrote = TRUE]
    /\ UNCHANGED <<now, nextToken, logins>>

\* AuthService.generateTokens after the rotation's revoke: signAsync may
\* reject (nothing is written then); otherwise the new row is inserted and
\* the pair returned.  Signing touches no shared state, so sign-then-insert
\* is one step.
RefreshGenerate(c) ==
    /\ call[c].op = "refresh" /\ call[c].pc = "generate"
    /\ \E signed \in BOOLEAN :
          IF signed
          THEN /\ StoreRefreshToken(call[c].owner)
               /\ call' = [call EXCEPT ![c].pc = "done", ![c].result = "OK",
                                       ![c].newToken = nextToken,
                                       ![c].owner = "u1"]
          ELSE /\ call' = [call EXCEPT ![c].pc = "done",
                                       ![c].result = "SIGN_FAILED",
                                       ![c].owner = "u1"]
               /\ UNCHANGED <<ledger, nextToken>>
    /\ UNCHANGED <<now, logins>>

\* mutant of LogoutOwns: the owner is not compared
LogoutOwns_NoOwnerCheck(found, u) == found # {}

\* the condition of AuthService.logout: tokenRecord && tokenRecord.userId === userId
LogoutOwns(found, u) ==
    found # {} /\ (CHOOSE x \in found : TRUE).userId = u

\* AuthService.logout up to its write: read the row and compare the owner
LogoutRead(c, u, t) ==
    /\ CanStart(c)
    /\ LET found == FindByToken(t)
           owned == LogoutOwns(found, u)
       IN call' = [call EXCEPT ![c] =
              [IdleCall EXCEPT
                 !.op = "logout", !.token = t,
                 !.pc = IF owned THEN "revoke" ELSE "done",
                 !.result = IF owned THEN "none" ELSE "OK"]]
    /\ UNCHANGED <<ledger, now, nextToken, logins>>

\* AuthService.logout: await revokeToken(refreshToken)
LogoutRevoke(c) ==
    /\ call[c].op = "logout" /\ call[c].pc = "revoke"
    /\ IF FindByToken(call[c].token) = {}
       THEN /\ call' = [call EXCEPT ![c].pc = "done",
                                    ![c].result = "RECORD_NOT_FOUND"]
            /\ UNCHANGED ledger
       ELSE /\ ledger' = RevokeToken(call[c].token)
            /\ call' = [call EXCEPT ![c].pc = "done", ![c].result = "OK",
                                    ![c].wrote = TRUE]
    /\ UNCHANGED <<now, nextToken, logins>>

\* AuthService.logoutAll
LogoutAll(c, u) ==
    /\ CanStart(c)
    /\ ledger' = RevokeAllUserTokens(u)
    /\ call' = [call EXCEPT ![c] =
           [IdleCall EXCEPT !.op = "logoutAll",
                            !.pc = "done", !.result = "OK"]]
    /\ UNCHANGED <<now, nextToken, logins>>

\* RefreshTokenRepository.deleteExpiredTokens
Sweep ==
    /\ ledger' = {r \in ledger : ~SweepMatches(r)}
    /\ ledger' # ledger
    /\ UNCHANGED <<now, nextToken, logins, call>>

\* the clock advances
Tick ==
    /\ now < MaxTime
    /\ now' = now + 1
    /\ UNCHANGED <<ledger, nextToken, logins, call>>

(***************************************************************************)
(* Guard pipeline                                                          *)
(***************************************************************************)
Undefined == [none |-> TRUE]
Outcome(code, status) == [code |-> code, status |-> status]
Pass == Outcome("pass", 0)

\* mutant of GetAllAndOverride: the class is consulted before the handler
GetAllAndOverride_ClassFirst(meta) ==
    IF meta.class # <<>> THEN meta.class
    ELSE IF meta.handler # <<>> THEN meta.handler
    ELSE <<>>

\* Reflector.getAllAndOverride(key, [context.getHandler(), context.getClass()]):
\* the first target whose metadata is defined; <<>> stands for undefined.
GetAllAndOverride(meta) ==
    IF meta.handler # <<>> THEN meta.handler
    ELSE IF meta.class # <<>> THEN meta.class
    ELSE <<>>

\* the truthiness of a boolean flag read with getAllAndOverride
IsSet(meta) ==
    LET v == GetAllAndOverride(meta) IN v # <<>> /\ v[1]

\* String.prototype.startsWith
StartsWith(s, p) == Len(p) <= Len(s) /\ SubSeq(s, 1, Len(p)) = p

\* String.prototype.endsWith
EndsWith(s, p) ==
    Len(p) <= Len(s) /\ SubSeq(s, Len(s) - Len(p) + 1, Len(s)) = p

\* String.prototype.slice(0, -1)
SliceDropLast(s) == SubSeq(s, 1, Len(s) - 1)

\* a configuration value: <<>> when configService.get returns undefined,
\* else the one string it returns
Unset == <<>>
Value(str) == <<str>>
\* JavaScript truthiness of such a value
Truthy(opt) == opt # <<>> /\ opt[1] # ""

\* JSON values of a JWT payload, tagged with what typeof and Array.isArray
\* tell about them.  Absent stands for a key the object does not have.
Absent == [kind |-> "absent"]
Unresolved == [kind |-> "unresolved"]
JNull == [kind |-> "null"]
JNumber(n) == [kind |-> "number", num |-> n]
JBoolean(b) == [kind |-> "boolean", bool |-> b]
JFunction == [kind |-> "function"]
StringClaim(str) == [kind |-> "string", str |-> str]
JArray(items) == [kind |-> "array", items |-> items]
JObject(fields) == [kind |-> "object", fields |-> fields]
\* an array of strings
ArrayClaim(strings) ==
    JArray([i \in DOMAIN strings |-> StringClaim(strings[i])])

\* the value is truthy
JsTruthy(value) ==
    IF value.kind \in {"null", "absent"} THEN FALSE
    ELSE IF value.kind = "string" THEN value.str # <<>>
    ELSE IF value.kind = "number" THEN value.num # 0
    ELSE IF value.kind = "boolean" THEN value.bool
    ELSE TRUE

\* typeof value
Typeof(value) ==
    IF value.kind \in {"null", "array", "object"} THEN "object"
    ELSE IF value.kind = "absent" THEN "undefined"
    ELSE value.kind

\* property names every object and array inherits, and the names of the
\* first array indices
InheritedKeys == {"constructor", "toString"}
IndexKeys == <<"0", "1", "2">>

\* key in value, for an object or an array
HasProperty(value, key) ==
    IF key \in InheritedKeys THEN TRUE
    ELSE IF value.kind = "array"
    THEN key = "length"
         \/ \E i \in 1..Len(value.items) :
                i <= Len(IndexKeys) /\ IndexKeys[i] = key
    ELSE IF key \in DOMAIN value.fields
    THEN value.fields[key].kind # "absent"
    ELSE FALSE

\* value[key], for a key that is in value
GetProperty(value, key) ==
    IF key \in InheritedKeys THEN JFunction
    ELSE IF value.kind = "array"
    THEN IF key = "length" THEN JNumber(Len(value.items))
         ELSE value.items[CHOOSE i \in 1..Len(value.items) :
                              i <= Len(IndexKeys) /\ IndexKeys[i] = key]
    ELSE value.fields[key]

\* mutant of ResolveClaim: the walk does not test that the value is an
\* object before `key in value`, which throws on a primitive
RECURSIVE ResolveClaim_NoTypeGuard(_, _)
ResolveClaim_NoTypeGuard(value, claimPath) ==
    IF claimPath = <<>> THEN value
    ELSE IF Typeof(value) # "object" \/ value.kind = "null"
    THEN [kind |-> "TypeError"]
    ELSE IF HasProperty(value, Head(claimPath))
    THEN ResolveClaim_NoTypeGuard(GetProperty(value, Head(claimPath)),
                                  Tail(claimPath))
    ELSE Unresolved

\* the loop over claimPath of extractRoles and extractScopes; Unresolved is
\* its `return []`
RECURSIVE ResolveClaim(_, _)
ResolveClaim(value, claimPath) ==
    IF claimPath = <<>> THEN value
    ELSE IF JsTruthy(value) /\ Typeof(value) = "object"
            /\ HasProperty(value, Head(claimPath))
    THEN ResolveClaim(GetProperty(value, Head(claimPath)), Tail(claimPath))
    ELSE Unresolved

\* value.filter((item) => typeof item === 'string')
RECURSIVE StringItems(_)
StringItems(items) ==
    IF items = <<>> THEN <<>>
    ELSE IF Typeof(Head(items)) = "string"
    THEN <<Head(items).str>> \o StringItems(Tail(items))
    ELSE StringItems(Tail(items))

\* String.prototype.split on a one-character delimiter
RECURSIVE SplitOn(_, _)
SplitOn(s, d) ==
    IF \A i \in 1..Len(s) : s[i] # d THEN <<s>>
    ELSE LET i == CHOOSE k \in 1..Len(s) :
                     s[k] = d /\ \A j \in 1..(k - 1) : s[j] # d
         IN <<SubSeq(s, 1, i - 1)>> \o SplitOn(SubSeq(s, i + 1, Len(s)), d)

\* String.prototype.trim
RECURSIVE Trim(_)
Trim(s) ==
    IF s = <<>> THEN s
    ELSE IF s[1] = " " THEN Trim(Tail(s))
    ELSE IF s[Len(s)] = " " THEN Trim(SubSeq(s, 1, Len(s) - 1))
    ELSE s

\* Array.prototype.map over a sequence
RECURSIVE MapTrim(_)
MapTrim(ss) ==
    IF ss = <<>> THEN <<>> ELSE <<Trim(Head(ss))>> \o MapTrim(Tail(ss))

NonEmpty(x) == Len(x) > 0

\* JWT_SCOPES_DELIMITER default
ScopesDelimiter == " "

\* the environment when no claim variable is set
DefaultClaimEnv ==
    [rolesClaim |-> Unset, scopesClaim |-> Unset, scopesDelimiter |-> Unset]

\* JwtVerificationService.loadConfig; a claim path is the sequence of its
\* dot-separated segments and the empty path stands for ''
LoadConfig(env) ==
    [rolesClaim |-> IF env.rolesClaim = Unset \/ env.rolesClaim[1] = <<>>
                    THEN <<"roles">> ELSE env.rolesClaim[1],
     scopesClaim |-> IF env.scopesClaim = Unset \/ env.scopesClaim[1] = <<>>
                     THEN <<"scope">> ELSE env.scopesClaim[1],
     scopesDelimiter |-> IF Truthy(env.scopesDelimiter)
                         THEN env.scopesDelimiter[1] ELSE ScopesDelimiter]

\* the result of a call: the value it returned, or what it threw
Returned(value) == [value |-> value]
Thrown(name) == [thrown |-> name]

\* mutant of RolesOfClaim: a string claim is split like a scope string
RolesOfClaim_Split(value) ==
    IF value.kind = "TypeError" THEN Thrown("TypeError")
    ELSE IF value.kind = "array" THEN Returned(StringItems(value.items))
    ELSE IF Typeof(value) = "string"
    THEN Returned(SelectSeq(MapTrim(SplitOn(value.str, ScopesDelimiter)),
                            NonEmpty))
    ELSE Returned(<<>>)

\* extractRoles after the loop; a TypeError of the loop propagates
RolesOfClaim(value) ==
    IF value.kind = "TypeError" THEN Thrown("TypeError")
    ELSE IF value.kind = "array" THEN Returned(StringItems(value.items))
    ELSE IF Typeof(value) = "string" THEN Returned(<<value.str>>)
    ELSE Returned(<<>>)

\* extractScopes after the loop; a TypeError of the loop propagates
ScopesOfClaim(value, delimiter) ==
    IF value.kind = "TypeError" THEN Thrown("TypeError")
    ELSE IF value.kind = "array" THEN Returned(StringItems(value.items))
    ELSE IF Typeof(value) = "string"
    THEN Returned(SelectSeq(MapTrim(SplitOn(value.str, delimiter)), NonEmpty))
    ELSE Returned(<<>>)

\* JwtVerificationService.extractRoles under a given environment
ExtractRolesWith(env, payload) ==
    RolesOfClaim(ResolveClaim(payload, LoadConfig(env).rolesClaim))

\* JwtVerificationService.extractScopes under a given environment
ExtractScopesWith(env, payload) ==
    ScopesOfClaim(ResolveClaim(payload, LoadConfig(env).scopesClaim),
                  LoadConfig(env).scopesDelimiter)

\* JwtVerificationService.extractRoles with the default claim path 'roles'
ExtractRoles(payload) ==
    ExtractRolesWith(DefaultClaimEnv, JObject(payload)).value

\* JwtVerificationService.extractScopes with the default claim path 'scope'
ExtractScopes(payload) ==
    ExtractScopesWith(DefaultClaimEnv, JObject(payload)).value

Range(f) == {f[i] : i \in DOMAIN f}

\* mutant of HasRole: every required role must be held
HasRole_Every(requiredRoles, userRoles) ==
    \A i \in 1..Len(requiredRoles) : requiredRoles[i] \in Range(userRoles)

\* requiredRoles.some((role) => userRoles.includes(role))
HasRole(requiredRoles, userRoles) ==
    \E i \in 1..Len(requiredRoles) : requiredRoles[i] \in Range(userRoles)

\* mutant of ScopeMatch: a required wildcard is honoured as well
ScopeMatch_TwoWay(userScope, requiredScope) ==
    \/ userScope = requiredScope
    \/ userScope = <<"*">>
    \/ requiredScope = <<"*">>
    \/ EndsWith(userScope, <<":", "*">>)
         /\ StartsWith(requiredScope, SliceDropLast(userScope))
    \/ EndsWith(requiredScope, <<":", "*">>)
         /\ StartsWith(userScope, SliceDropLast(requiredScope))

\* the callback of ScopesGuard.matchesScope for one held scope
ScopeMatch(userScope, requiredScope) ==
    IF userScope = requiredScope THEN TRUE
    ELSE IF userScope = <<"*">> THEN TRUE
    ELSE IF EndsWith(userScope, <<":", "*">>)
    THEN StartsWith(requiredScope, SliceDropLast(userScope))
    ELSE FALSE

\* ScopesGuard.matchesScope
MatchesScope(userScopes, requiredScope) ==
    \E i \in 1..Len(userScopes) : ScopeMatch(userScopes[i], requiredScope)

\* an allowlist entry without '/': a single address
SingleIp(addr) == [range |-> addr, bits |-> NULL]
\* an allowlist entry 'range/bits'
Cidr(addr, bits) == [range |-> addr, bits |-> bits]
AllowedIpRow(userId, ipAddress) == [userId |-> userId, ipAddress |-> ipAddress]

\* width of the bitwise operators
IntBits == 32

\* the low `width` bits of a natural number, least significant first
RECURSIVE BitsOf(_, _)
BitsOf(n, width) ==
    IF width = 0 THEN <<>>
    ELSE <<n % 2>> \o BitsOf(n \div 2, width - 1)

\* ToInt32 of an octet
OctetBits(octet) == BitsOf(octet, IntBits)

\* v << k
ShiftLeft(v, k) == SubSeq(BitsOf(0, k) \o v, 1, IntBits)

\* v + w for two values whose sum stays within the signed 32-bit range
RECURSIVE AddBits(_, _, _)
AddBits(v, w, carry) ==
    IF v = <<>> THEN <<>>
    ELSE LET t == Head(v) + Head(w) + carry
         IN <<t % 2>> \o AddBits(Tail(v), Tail(w), t \div 2)
Plus(v, w) == AddBits(v, w, 0)

\* v & w
RECURSIVE BitAnd(_, _)
BitAnd(v, w) ==
    IF v = <<>> THEN <<>>
    ELSE <<Head(v) * Head(w)>> \o BitAnd(Tail(v), Tail(w))

\* ~v
RECURSIVE BitNot(_)
BitNot(v) ==
    IF v = <<>> THEN <<>> ELSE <<1 - Head(v)>> \o BitNot(Tail(v))

\* v - 1 on the bits of a positive number: the borrow runs through the
\* zeros below the lowest one
RECURSIVE MinusOne(_)
MinusOne(v) ==
    IF v = <<>> THEN <<>>
    ELSE IF Head(v) = 1 THEN <<0>> \o Tail(v)
    ELSE <<1>> \o MinusOne(Tail(v))

\* ToInt32(2 ** k - 1): 2 ** k is the double with bit k alone set, and
\* ToInt32 keeps the low 32 bits
Pow2Minus1(k) ==
    SubSeq(MinusOne(BitsOf(0, k) \o <<1>> \o BitsOf(0, IntBits - k)),
           1, IntBits)

\* the number NaN, where a 32-bit value is expected
NaN == <<>>

\* ToInt32 of the operand of a bitwise operator: NaN becomes 0
ToInt32(v) == IF v = NaN THEN OctetBits(0) ELSE v

\* parseInt(octet, 10) of one segment of ip.split('.').  A natural number
\* stands for the segment written in decimal digits, a negative number for a
\* segment that does not begin with a digit ('unknown', '::1', '::ffff:10')
ParseOctet(octet) == IF octet < 0 THEN NaN ELSE OctetBits(octet)

\* IpRestrictionService.ipToNumber: reduce((acc << 8) + parseInt(octet), 0)
RECURSIVE IpToNumberFrom(_, _)
IpToNumberFrom(acc, octets) ==
    IF octets = <<>> THEN acc
    ELSE LET octet == ParseOctet(Head(octets))
         IN IpToNumberFrom(IF octet = NaN THEN NaN
                           ELSE Plus(ShiftLeft(ToInt32(acc), 8), octet),
                           Tail(octets))
IpToNumber(ip) == IpToNumberFrom(OctetBits(0), ip)

\* mutant of CidrMask: the complement is left out
CidrMask_NoComplement(bits) == Pow2Minus1(IntBits - bits)

\* the mask of matchCidr: ~(2 ** (32 - bits) - 1)
CidrMask(bits) == BitNot(Pow2Minus1(IntBits - bits))

\* IpRestrictionService.matchCidr
MatchCidr(ip, cidr) ==
    LET mask == CidrMask(cidr.bits)
        ipNum == IpToNumber(ip)
        rangeNum == IpToNumber(cidr.range)
    IN BitAnd(ToInt32(ipNum), mask) = BitAnd(ToInt32(rangeNum), mask)

\* mutant of AllowedIps: the rows of every user are returned
AllowedIps_AllUsers(userId) == {r.ipAddress : r \in userAllowedIp}

\* IpRestrictionService.getAllowedIps
AllowedIps(userId) ==
    {r.ipAddress : r \in {x \in userAllowedIp : x.userId = userId}}

\* IpRestrictionService.matchIp
MatchIp(clientIp, allowedPattern) ==
    IF allowedPattern.bits # NULL THEN MatchCidr(clientIp, allowedPattern)
    ELSE clientIp = allowedPattern.range

\* a call isIpAllowed(userId, ipAddress)
IsIpAllowedArgs(userId, ipAddress) ==
    [fn |-> "isIpAllowed", userId |-> userId, ipAddress |-> ipAddress]

\* IpRestrictionService.isIpAllowed
IsIpAllowed(userId, ipAddress) ==
    LET allowedIps == AllowedIps(userId)
    IN IF Cardinality(allowedIps) = 0 THEN TRUE
       ELSE \E allowed \in allowedIps : MatchIp(ipAddress, allowed)

\* error.message.toLowerCase().includes(needle), for the messages of the model
MessageIncludes(message, needle) ==
    <<message, needle>> \in
        {<<"No auth token", "no auth token">>,
         <<"jwt must be provided", "jwt must be provided">>,
         <<"jwt expired", "jwt expired">>,
         <<"Token expired", "token expired">>}

\* mutant of ConvertToBusinessException: the missing-token messages are not
\* recognised
ConvertToBusinessException_NoMissing(error) ==
    IF error = Undefined THEN Outcome("TOKEN_MISSING", 401)
    ELSE IF MessageIncludes(error.message, "jwt expired")
            \/ MessageIncludes(error.message, "token expired")
    THEN Outcome("TOKEN_EXPIRED", 401)
    ELSE Outcome("TOKEN_INVALID", 401)

\* JwtAuthGuard.convertToBusinessException
ConvertToBusinessException(error) ==
    IF error = Undefined THEN Outcome("TOKEN_MISSING", 401)
    ELSE IF MessageIncludes(error.message, "no auth token")
            \/ MessageIncludes(error.message, "jwt must be provided")
    THEN Outcome("TOKEN_MISSING", 401)
    ELSE IF MessageIncludes(error.message, "jwt expired")
            \/ MessageIncludes(error.message, "token expired")
    THEN Outcome("TOKEN_EXPIRED", 401)
    ELSE Outcome("TOKEN_INVALID", 401)

\* mutant of HandleRequest: a missing user is not rejected
HandleRequest_NoUserCheck(err, usr, info) ==
    IF err # Undefined THEN ConvertToBusinessException(err) ELSE Pass

\* JwtAuthGuard.handleRequest: the verdict
HandleRequest(err, usr, info) ==
    IF err # Undefined THEN ConvertToBusinessException(err)
    ELSE IF usr = Undefined THEN ConvertToBusinessException(info)
    ELSE Pass

\* JwtAuthGuard.canActivate: the verdict
JwtAuthGuardVerdict(r) ==
    IF IsSet(r.isPublic) THEN Pass
    ELSE HandleRequest(r.auth.err, r.auth.user, r.auth.info)

\* mutant of IpRestrictionGuardVerdict: the skip flag is not honoured
IpRestrictionGuardVerdict_NoSkip(r, usr) ==
    IF IsSet(r.isPublic) THEN Pass
    ELSE IF usr = Undefined THEN Outcome("TOKEN_MISSING", 401)
    ELSE IF ~IsIpAllowed(usr.sub, r.clientIp)
    THEN Outcome("IP_NOT_ALLOWED", 403)
    ELSE Pass

\* IpRestrictionGuard.canActivate: the verdict
IpRestrictionGuardVerdict(r, usr) ==
    IF IsSet(r.isPublic) THEN Pass
    ELSE IF IsSet(r.skipIpRestriction) THEN Pass
    ELSE IF usr = Undefined THEN Outcome("TOKEN_MISSING", 401)
    ELSE IF ~IsIpAllowed(usr.sub, r.clientIp)
    THEN Outcome("IP_NOT_ALLOWED", 403)
    ELSE Pass

\* whether IpRestrictionGuard.canActivate reaches isIpAllowed
IpRestrictionGuardLooksUp(r, usr) ==
    ~IsSet(r.isPublic) /\ ~IsSet(r.skipIpRestriction) /\ usr # Undefined

\* mutant of NothingRequired: only an absent declaration returns early
NothingRequired_AbsentOnly(meta) == GetAllAndOverride(meta) = <<>>

\* the early return of RolesGuard / ScopesGuard: !required || required.length === 0
NothingRequired(meta) ==
    LET v == GetAllAndOverride(meta) IN v = <<>> \/ Len(v[1]) = 0

\* RolesGuard.canActivate: the verdict
RolesGuardVerdict(r, usr) ==
    IF NothingRequired(r.roles) THEN Pass
    ELSE IF usr = Undefined THEN Outcome("TOKEN_MISSING", 401)
    ELSE IF ~HasRole(GetAllAndOverride(r.roles)[1], ExtractRoles(usr))
    THEN Outcome("INSUFFICIENT_PERMISSIONS", 403)
    ELSE Pass

\* ScopesGuard.canActivate: the verdict
ScopesGuardVerdict(r, usr) ==
    IF NothingRequired(r.scopes) THEN Pass
    ELSE IF usr = Undefined THEN Outcome("TOKEN_MISSING", 401)
    ELSE LET requiredScopes == GetAllAndOverride(r.scopes)[1]
             userScopes == ExtractScopes(usr)
         IN IF ~(\E i \in 1..Len(requiredScopes) :
                    MatchesScope(userScopes, requiredScopes[i]))
            THEN Outcome("INSUFFICIENT_SCOPE", 403)
            ELSE Pass

\* mutant of GuardOrder: RolesGuard is registered before IpRestrictionGuard
GuardOrder_RolesFirst == <<"jwt", "roles", "ip", "scopes">>

\* AuthModule providers: the APP_GUARD registrations, in order
GuardOrder == <<"jwt", "ip", "roles", "scopes">>

\* the guards consumer: the next guard runs only when the previous one
\* returned true; a throw ends the request with that error
Advance(g, verdict, usr) ==
    /\ outcome.code = "running"
    /\ pos <= Len(GuardOrder)
    /\ GuardOrder[pos] = g
    /\ evaluated' = Append(evaluated, [guard |-> g, verdict |-> verdict])
    /\ user' = usr
    /\ IF verdict = Pass
       THEN /\ pos' = pos + 1
            /\ outcome' = IF pos = Len(GuardOrder)
                          THEN Outcome("allowed", 0) ELSE outcome
       ELSE /\ pos' = pos
            /\ outcome' = verdict
    /\ UNCHANGED req

\* JwtAuthGuard.canActivate; passport stores handleRequest's result in request.user
JwtAuthGuardStep ==
    /\ Advance("jwt", JwtAuthGuardVerdict(req),
               IF ~IsSet(req.isPublic) /\ JwtAuthGuardVerdict(req) = Pass
               THEN req.auth.user ELSE user)
    /\ verifyCalls' = IF IsSet(req.isPublic) \/ ~req.auth.verified
                      THEN verifyCalls ELSE verifyCalls + 1
    /\ UNCHANGED ipLookups

\* IpRestrictionGuard.canActivate
IpRestrictionGuardStep ==
    /\ Advance("ip", IpRestrictionGuardVerdict(req, user), user)
    /\ IF IpRestrictionGuardLooksUp(req, user)
       THEN /\ ipLookups' = ipLookups + 1
            /\ args' = IsIpAllowedArgs(user.sub, req.clientIp)
            /\ result' = Returned(IsIpAllowed(user.sub, req.clientIp))
       ELSE UNCHANGED <<ipLookups, args, result>>
    /\ UNCHANGED verifyCalls

\* RolesGuard.canActivate
RolesGuardStep ==
    /\ Advance("roles", RolesGuardVerdict(req, user), user)
    /\ UNCHANGED <<verifyCalls, ipLookups>>

\* ScopesGuard.canActivate
ScopesGuardStep ==
    /\ Advance("scopes", ScopesGuardVerdict(req, user), user)
    /\ UNCHANGED <<verifyCalls, ipLookups>>

\* the empty refresh_tokens table, no call in progress
LedgerIdle ==
    /\ ledger = {}
    /\ now = 0
    /\ nextToken = 1
    /\ logins = 0
    /\ call = [c \in Calls |-> IdleCall]

\* no request is in the pipeline
PipeIdle ==
    /\ req = Undefined
    /\ user = Undefined
    /\ pos = 0
    /\ outcome = Outcome("none", 0)
    /\ evaluated = <<>>
    /\ verifyCalls = 0
    /\ ipLookups = 0

\* no service call is under study
NoCall ==
    /\ args = Undefined
    /\ result = Undefined

Init ==
    /\ LedgerIdle
    /\ PipeIdle
    /\ userAllowedIp = {}
    /\ NoCall

LedgerLogin == \E u \in Users : Login(u) /\ UNCHANGED <<pipeVars, svcVars>>
LedgerRefreshRead ==
    \E c \in Calls, t \in Presented : RefreshRead(c, t) /\ UNCHANGED <<pipeVars, svcVars>>
LedgerRefreshRevoke == \E c \in Calls : RefreshRevoke(c) /\ UNCHANGED <<pipeVars, svcVars>>
LedgerRefreshGenerate == \E c \in Calls : RefreshGenerate(c) /\ UNCHANGED <<pipeVars, svcVars>>
LedgerLogoutRead ==
    \E c \in Calls, u \in Users, t \in Presented :
        LogoutRead(c, u, t) /\ UNCHANGED <<pipeVars, svcVars>>
LedgerLogoutRevoke == \E c \in Calls : LogoutRevoke(c) /\ UNCHANGED <<pipeVars, svcVars>>
LedgerLogoutAll ==
    \E c \in Calls, u \in Users : LogoutAll(c, u) /\ UNCHANGED <<pipeVars, svcVars>>
LedgerSweep == Sweep /\ UNCHANGED <<pipeVars, svcVars>>
LedgerTick == Tick /\ UNCHANGED <<pipeVars, svcVars>>

Next ==
    \/ LedgerLogin
    \/ LedgerRefreshRead
    \/ LedgerRefreshRevoke
    \/ LedgerRefreshGenerate
    \/ LedgerLogoutRead
    \/ LedgerLogoutRevoke
    \/ LedgerLogoutAll
    \/ LedgerSweep
    \/ LedgerTick

Spec == Init /\ [][Next]_vars


(***************************************************************************)
(* One request through the four global guards.                             *)
(***************************************************************************)
NoMeta == [handler |-> <<>>, class |-> <<>>]
OnHandler(v) == [handler |-> <<v>>, class |-> <<>>]
OnClass(v) == [handler |-> <<>>, class |-> <<v>>]
OnBoth(h, c) == [handler |-> <<h>>, class |-> <<c>>]

ScopeAR == <<"a", ":", "r">>
ScopeAW == <<"a", ":", "w">>
ScopeBR == <<"b", ":", "r">>
ScopeAStar == <<"a", ":", "*">>
ScopeStar == <<"*">>
\* the scope claim "a:*  b:r" as one delimited string
ScopeString == <<"a", ":", "*", " ", " ", "b", ":", "r">>

\* verified JWT payloads
Payloads ==
    [sub : Users,
     roles : {Absent, ArrayClaim(<<"admin">>),
              ArrayClaim(<<"user", "moderator">>), StringClaim("moderator")},
     scope : {Absent, ArrayClaim(<<ScopeAR>>), ArrayClaim(<<ScopeAStar>>),
              ArrayClaim(<<ScopeStar>>), StringClaim(ScopeString)}]

ErrorOf(message) == [message |-> message]
\* the Authorization header: absent, or a scheme and a token
NoHeader == [scheme |-> "", token |-> ""]
Header(scheme, token) == [scheme |-> scheme, token |-> token]
Headers ==
    {NoHeader, Header("Basic", "abc"), Header("Bearer", ""),
     Header("Bearer", "jwt")}

\* ExtractJwt.fromAuthHeaderAsBearerToken finds a token
HasBearerToken(header) == header.scheme = "Bearer" /\ header.token # ""

AuthResult(header, verified, err, usr, info) ==
    [header |-> header, verified |-> verified, err |-> err, user |-> usr,
     info |-> info]

\* what passport-jwt hands to handleRequest: (err, user | false, info), and
\* whether it got as far as verifying a token.  Without a bearer token it
\* fails with 'No auth token' before any verification.
AuthResults ==
    {AuthResult(h, FALSE, Undefined, Undefined, ErrorOf("No auth token")) :
        h \in {x \in Headers : ~HasBearerToken(x)}}
    \cup
    {AuthResult(Header("Bearer", "jwt"), FALSE, Undefined, Undefined, Undefined),
     AuthResult(Header("Bearer", "jwt"), TRUE, Undefined, Undefined,
                ErrorOf("jwt expired")),
     AuthResult(Header("Bearer", "jwt"), TRUE, Undefined, Undefined,
                ErrorOf("invalid signature")),
     AuthResult(Header("Bearer", "jwt"), TRUE, Undefined, Undefined,
                ErrorOf("jwt malformed")),
     AuthResult(Header("Bearer", "jwt"), TRUE, Undefined, Undefined,
                ErrorOf("jwt must be provided")),
     AuthResult(Header("Bearer", "jwt"), TRUE, ErrorOf("Token expired"),
                Undefined, Undefined),
     AuthResult(Header("Bearer", "jwt"), TRUE, ErrorOf("invalid signature"),
                Undefined, Undefined)}
    \cup {AuthResult(Header("Bearer", "jwt"), TRUE, Undefined, p, Undefined) :
            p \in Payloads}

\* @Public() on the handler or on the controller class
PublicMetas == {NoMeta, OnHandler(TRUE), OnClass(TRUE)}
\* @SkipIpRestriction() on the handler or on the controller class
SkipIpMetas == {NoMeta, OnHandler(TRUE), OnClass(TRUE)}
\* @Roles(...)
RolesMetas ==
    {NoMeta, OnHandler(<<>>), OnHandler(<<"admin">>),
     OnHandler(<<"admin", "moderator">>), OnClass(<<"user">>),
     OnBoth(<<"moderator">>, <<"admin">>), OnBoth(<<>>, <<"admin">>)}
\* @Scopes(...)
ScopesMetas ==
    {NoMeta, OnHandler(<<>>), OnHandler(<<ScopeAR>>),
     OnHandler(<<ScopeBR, ScopeAW>>), OnClass(<<ScopeAStar>>),
     OnBoth(<<ScopeBR>>, <<ScopeAR>>)}
\* results of extractClientIp
ClientIps == {<<10, 0, 0, 1>>, <<10, 0, 0, 2>>}
\* user_allowed_ips rows while requests are served: u1 is restricted to one
\* address, u2 has no rows
ServedAllowlist == {AllowedIpRow("u1", SingleIp(<<10, 0, 0, 1>>))}

Request(isPublic, skipIp, roles, scopes, auth, clientIp) ==
    [isPublic |-> isPublic, skipIpRestriction |-> skipIp, roles |-> roles,
     scopes |-> scopes, auth |-> auth, clientIp |-> clientIp]

\* a request enters the guards consumer
InitPipeline ==
    /\ LedgerIdle
    /\ \E isPublic \in PublicMetas, skipIp \in SkipIpMetas,
          roles \in RolesMetas, scopes \in ScopesMetas,
          auth \in AuthResults, clientIp \in ClientIps :
          req = Request(isPublic, skipIp, roles, scopes, auth, clientIp)
    /\ user = Undefined
    /\ pos = 1
    /\ outcome = Outcome("running", 0)
    /\ evaluated = <<>>
    /\ verifyCalls = 0
    /\ ipLookups = 0
    /\ userAllowedIp = ServedAllowlist
    /\ NoCall

PipeJwtAuthGuard == JwtAuthGuardStep /\ UNCHANGED <<ledgerVars, svcVars>>
PipeIpRestrictionGuard ==
    IpRestrictionGuardStep /\ UNCHANGED <<ledgerVars, userAllowedIp>>
PipeRolesGuard == RolesGuardStep /\ UNCHANGED <<ledgerVars, svcVars>>
PipeScopesGuard == ScopesGuardStep /\ UNCHANGED <<ledgerVars, svcVars>>

NextPipeline ==
    \/ PipeJwtAuthGuard
    \/ PipeIpRestrictionGuard
    \/ PipeRolesGuard
    \/ PipeScopesGuard

SpecPipeline == InitPipeline /\ [][NextPipeline]_vars

(***************************************************************************)
(* The scope check alone, over all short scope strings.                    *)
(***************************************************************************)
MaxScopeLen == 3
ScopeAlphabet == {"a", "r", ":", "*"}
ScopeStrings ==
    UNION {[1..n -> ScopeAlphabet] : n \in 0..MaxScopeLen}

\* an authenticated request that has passed the first three guards and
\* stands before ScopesGuard
InitScopes ==
    /\ LedgerIdle
    /\ \E r \in ScopeStrings, u \in ScopeStrings :
         \E requiredScopes \in {<<r>>, <<<<"r">>, r>>},
            userScopes \in {<<>>, <<u>>, <<<<"a">>, u>>} :
            /\ user = [sub |-> "u2", roles |-> Absent,
                       scope |-> ArrayClaim(userScopes)]
            /\ req = Request(NoMeta, NoMeta, NoMeta,
                             OnHandler(requiredScopes),
                             AuthResult(Header("Bearer", "jwt"), TRUE, Undefined,
                                        user, Undefined),
                             <<10, 0, 0, 2>>)
    /\ pos = 4
    /\ outcome = Outcome("running", 0)
    /\ evaluated = <<[guard |-> "jwt", verdict |-> Pass],
                     [guard |-> "ip", verdict |-> Pass],
                     [guard |-> "roles", verdict |-> Pass]>>
    /\ verifyCalls = 1
    /\ ipLookups = 1
    /\ userAllowedIp = ServedAllowlist
    /\ NoCall

ScopesStage == ScopesGuardStep /\ UNCHANGED <<ledgerVars, svcVars>>

NextScopes == ScopesStage

SpecScopes == InitScopes /\ [][NextScopes]_vars


(***************************************************************************)
(* IpRestrictionService alone: allowlist lookups and CIDR matching.        *)
(***************************************************************************)
\* addresses tested and the ranges they are tested against: octets with and
\* without the top bit, differing in high, middle and low bits
CidrAddresses ==
    [1..4 -> {0, 129, 144}] \cup {<<10, 1, 2, 3>>, <<192, 168, 2, 1>>}
CidrRanges ==
    [1..4 -> {0, 129}] \cup {<<10, 0, 0, 0>>, <<192, 168, 1, 0>>}
PrefixLengths == 0..IntBits

AllowlistEntries ==
    {SingleIp(<<10, 0, 0, 1>>), Cidr(<<10, 0, 0, 0>>, 8),
     SingleIp(<<192, 168, 1, 5>>), Cidr(<<192, 168, 1, 0>>, 24)}
AllowlistTables ==
    SUBSET {AllowedIpRow(u, e) : u \in Users, e \in AllowlistEntries}
LookupIps ==
    {<<10, 0, 0, 1>>, <<10, 1, 2, 3>>, <<192, 168, 1, 5>>,
     <<192, 168, 2, 1>>, <<172, 16, 0, 1>>}

\* a call of isIpAllowed or of matchCidr is about to run
InitIp ==
    /\ LedgerIdle
    /\ PipeIdle
    /\ result = Undefined
    /\ \/ /\ userAllowedIp \in AllowlistTables
          /\ \E userId \in Users, ipAddress \in LookupIps :
                args = IsIpAllowedArgs(userId, ipAddress)
       \/ /\ userAllowedIp = {}
          /\ \E ip \in CidrAddresses, range \in CidrRanges,
                bits \in PrefixLengths :
                args = [fn |-> "matchCidr", ip |-> ip,
                        cidr |-> Cidr(range, bits)]

\* IpRestrictionService.isIpAllowed returns
IsIpAllowedCall ==
    /\ args.fn = "isIpAllowed"
    /\ result = Undefined
    /\ result' = Returned(IsIpAllowed(args.userId, args.ipAddress))
    /\ UNCHANGED <<ledgerVars, pipeVars, userAllowedIp, args>>

\* IpRestrictionService.matchCidr returns
MatchCidrCall ==
    /\ args.fn = "matchCidr"
    /\ result = Undefined
    /\ result' = Returned(MatchCidr(args.ip, args.cidr))
    /\ UNCHANGED <<ledgerVars, pipeVars, userAllowedIp, args>>

NextIp ==
    \/ IsIpAllowedCall
    \/ MatchCidrCall

SpecIp == InitIp /\ [][NextIp]_vars


(***************************************************************************)
(* isIpAllowed on the addresses extractClientIp can hand over: the peer    *)
(* address of the socket, the placeholder 'unknown', or the first entry    *)
(* of X-Forwarded-For, whatever its text.                                  *)
(***************************************************************************)
\* 'unknown', '::1', '::ffff:10.0.0.1', '167772161' and '10.0.0.1'
ClientAddresses ==
    {<<-1>>, <<-2>>, <<-3, 0, 0, 1>>, <<167772161>>, <<10, 0, 0, 1>>}
\* 'unknown', '10.0.0.1', '10.0.0.0/8', '0.0.0.0/0' and '0.0.0.0/8'
AddressEntries ==
    {SingleIp(<<-1>>), SingleIp(<<10, 0, 0, 1>>), Cidr(<<10, 0, 0, 0>>, 8),
     Cidr(<<0, 0, 0, 0>>, 0), Cidr(<<0, 0, 0, 0>>, 8)}
AddressTables ==
    SUBSET {AllowedIpRow(u, e) : u \in Users, e \in AddressEntries}

\* a call of isIpAllowed is about to run
InitAddress ==
    /\ LedgerIdle
    /\ PipeIdle
    /\ result = Undefined
    /\ userAllowedIp \in AddressTables
    /\ \E userId \in Users, ipAddress \in ClientAddresses :
          args = IsIpAllowedArgs(userId, ipAddress)

NextAddress == IsIpAllowedCall

SpecAddress == InitAddress /\ [][NextAddress]_vars


(***************************************************************************)
(* JwtVerificationService.verify: key source selection and error mapping.  *)
(***************************************************************************)
\* loadConfig: the part of AuthConfig that verify reads
AuthConfigs ==
    [jwksUri : {Unset, Value(""), Value("https://idp/jwks")},
     secret : {Unset, Value(""), Value("s3cret")},
     issuer : {Unset, Value("idp")},
     audience : {Unset, Value("api")}]

\* a presented token, by what verification will find in it
Tokens ==
    [malformed : BOOLEAN,      \* not three base64url segments of JSON
     kid : BOOLEAN,            \* the header carries a kid
     algAllowed : BOOLEAN,     \* the header's alg is among config.algorithms
     signedWith : {"jwks", "secret", "other"},
     notYetValid : BOOLEAN,    \* nbf lies in the future
     expired : BOOLEAN,        \* exp has elapsed
     issOk : BOOLEAN,          \* iss is the issuer "idp"
     audOk : BOOLEAN,          \* aud is the audience "api"
     sub : Users]

\* what jwksClient.getSigningKey answers for the token's kid
KeyFetches == {"found", "unknown kid", "fetch failed"}

JwtError(name, message) == [name |-> name, message |-> message]
NoError == JwtError("", "")

\* the getKey callback of verifyWithJwks
GetKey(token, fetch) ==
    IF ~token.kid
    THEN [err |-> JwtError("Error", "Token header missing kid"), key |-> ""]
    ELSE IF fetch # "found"
    THEN [err |-> JwtError("SigningKeyNotFoundError", fetch), key |-> ""]
    ELSE [err |-> NoError, key |-> "jwks"]

\* getVerifyOptions: issuer and audience are checked only when configured
GetVerifyOptions(config) ==
    [issuer |-> Truthy(config.issuer), audience |-> Truthy(config.audience)]

\* jsonwebtoken's verify: the error it passes to the callback, in the order
\* of its checks; NoError when the token is accepted
JwtVerify(token, keyResult, options) ==
    IF token.malformed THEN JwtError("JsonWebTokenError", "jwt malformed")
    ELSE IF keyResult.err # NoError
    THEN JwtError("JsonWebTokenError",
                  "error in secret or public key callback")
    ELSE IF ~token.algAllowed
    THEN JwtError("JsonWebTokenError", "invalid algorithm")
    ELSE IF token.signedWith # keyResult.key
    THEN JwtError("JsonWebTokenError", "invalid signature")
    ELSE IF token.notYetValid THEN JwtError("NotBeforeError", "jwt not active")
    ELSE IF token.expired THEN JwtError("TokenExpiredError", "jwt expired")
    ELSE IF options.audience /\ ~token.audOk
    THEN JwtError("JsonWebTokenError", "jwt audience invalid")
    ELSE IF options.issuer /\ ~token.issOk
    THEN JwtError("JsonWebTokenError", "jwt issuer invalid")
    ELSE NoError

\* mutant of HandleJwtError: a token that is not yet valid counts as expired
HandleJwtError_NotBeforeExpired(err) ==
    IF err.name \in {"TokenExpiredError", "NotBeforeError"}
    THEN Outcome("TOKEN_EXPIRED", 401)
    ELSE Outcome("TOKEN_INVALID", 401)

\* JwtVerificationService.handleJwtError
HandleJwtError(err) ==
    IF err.name = "TokenExpiredError" THEN Outcome("TOKEN_EXPIRED", 401)
    ELSE IF err.name = "NotBeforeError" THEN Outcome("TOKEN_INVALID", 401)
    ELSE IF err.name = "JsonWebTokenError" THEN Outcome("TOKEN_INVALID", 401)
    ELSE Outcome("TOKEN_INVALID", 401)

Resolved(via, token) ==
    [via |-> via, ok |-> TRUE, error |-> Pass, payload |-> [sub |-> token.sub]]
Rejected(via, error) ==
    [via |-> via, ok |-> FALSE, error |-> error, payload |-> [sub |-> ""]]

\* the callback given to jwt.verify in verifyWithJwks and verifyWithSecret
VerifyCallback(via, err, token) ==
    IF err # NoError THEN Rejected(via, HandleJwtError(err))
    ELSE Resolved(via, token)

\* JwtVerificationService.verifyWithJwks
VerifyWithJwks(config, token, fetch) ==
    VerifyCallback("jwks",
                   JwtVerify(token, GetKey(token, fetch),
                             GetVerifyOptions(config)),
                   token)

\* JwtVerificationService.verifyWithSecret
VerifyWithSecret(config, token) ==
    VerifyCallback("secret",
                   JwtVerify(token, [err |-> NoError, key |-> "secret"],
                             GetVerifyOptions(config)),
                   token)

\* the UnauthorizedException thrown without a key source
NotConfigured == Outcome("JWT verification is not configured", 401)

\* mutant of Verify: the shared secret is tried first
Verify_SecretFirst(config, token, fetch) ==
    IF Truthy(config.secret) THEN VerifyWithSecret(config, token)
    ELSE IF Truthy(config.jwksUri) THEN VerifyWithJwks(config, token, fetch)
    ELSE Rejected("none", NotConfigured)

\* JwtVerificationService.verify; the constructor creates jwksClient exactly
\* when config.jwksUri is truthy
Verify(config, token, fetch) ==
    IF Truthy(config.jwksUri) THEN VerifyWithJwks(config, token, fetch)
    ELSE IF Truthy(config.secret) THEN VerifyWithSecret(config, token)
    ELSE Rejected("none", NotConfigured)

\* the service is constructed and verify(token) is about to run
InitVerify ==
    /\ LedgerIdle
    /\ PipeIdle
    /\ userAllowedIp = {}
    /\ result = Undefined
    /\ \E config \in AuthConfigs, token \in Tokens, fetch \in KeyFetches :
          args = [fn |-> "verify", config |-> config, token |-> token,
                  fetch |-> fetch]

\* JwtVerificationService.verify settles
VerifyCall ==
    /\ args.fn = "verify"
    /\ result = Undefined
    /\ result' = Verify(args.config, args.token, args.fetch)
    /\ UNCHANGED <<ledgerVars, pipeVars, userAllowedIp, args>>

NextVerify == VerifyCall

SpecVerify == InitVerify /\ [][NextVerify]_vars


(***************************************************************************)
(* Claim extraction alone, over JSON payloads and configured claim paths.  *)
(***************************************************************************)
\* every string over a letter, the space and the comma, up to the bound
ClaimStrings ==
    UNION {[1..n -> {"a", " ", ","}] : n \in 0..MaxScopeLen}

\* values a claim can hold
ClaimLeaves ==
    {JNull, JNumber(0), JNumber(7), JBoolean(TRUE), JBoolean(FALSE),
     JArray(<<>>),
     JArray(<<StringClaim(<<"a">>), JNumber(1), StringClaim(<<" ", "a">>),
              JNull, StringClaim(<<>>)>>)}
    \cup {StringClaim(str) : str \in ClaimStrings}

\* payloads: the claim sits at 'a' or at 'a.b', and 'roles' and 'scope' are
\* absent or hold one string
ClaimPayloads ==
    {JObject([a |-> v, roles |-> w, scope |-> w]) :
        v \in {Absent} \cup ClaimLeaves
              \cup {JObject([b |-> leaf]) : leaf \in ClaimLeaves},
        w \in {Absent, StringClaim(<<"a">>)}}

\* JWT_ROLES_CLAIM / JWT_SCOPES_CLAIM
ClaimPathSettings ==
    {Unset, Value(<<>>), Value(<<"a">>), Value(<<"a", "b">>),
     Value(<<"a", "b", "c">>), Value(<<"a", "0">>), Value(<<"a", "length">>),
     Value(<<"a", "constructor">>), Value(<<"c">>)}
\* JWT_SCOPES_DELIMITER
DelimiterSettings == {Unset, Value(""), Value(",")}

\* the service is constructed and extractRoles or extractScopes is about to
\* run on a payload
InitClaims ==
    /\ LedgerIdle
    /\ PipeIdle
    /\ userAllowedIp = {}
    /\ result = Undefined
    /\ \E payload \in ClaimPayloads, path \in ClaimPathSettings :
         \/ args = [fn |-> "extractRoles", payload |-> payload,
                    env |-> [rolesClaim |-> path, scopesClaim |-> Unset,
                             scopesDelimiter |-> Unset]]
         \/ \E delimiter \in DelimiterSettings :
               args = [fn |-> "extractScopes", payload |-> payload,
                       env |-> [rolesClaim |-> Unset, scopesClaim |-> path,
                                scopesDelimiter |-> delimiter]]

\* JwtVerificationService.extractRoles returns or throws
ExtractRolesCall ==
    /\ args.fn = "extractRoles"
    /\ result = Undefined
    /\ result' = ExtractRolesWith(args.env, args.payload)
    /\ UNCHANGED <<ledgerVars, pipeVars, userAllowedIp, args>>

\* JwtVerificationService.extractScopes returns or throws
ExtractScopesCall ==
    /\ args.fn = "extractScopes"
    /\ result = Undefined
    /\ result' = ExtractScopesWith(args.env, args.payload)
    /\ UNCHANGED <<ledgerVars, pipeVars, userAllowedIp, args>>

NextClaims ==
    \/ ExtractRolesCall
    \/ ExtractScopesCall

SpecClaims == InitClaims /\ [][NextClaims]_vars


(***************************************************************************)
(* generateTokens alone, on any table of refresh tokens.                   *)
(***************************************************************************)
\* JWT_ISSUER
IssuerSettings == {Unset, Value(""), Value("https://auth.example.com")}
\* the constructor: configService.get('JWT_ISSUER') || 'nest-project'
JwtIssuer(env) ==
    IF Truthy(env.JWT_ISSUER) THEN env.JWT_ISSUER[1] ELSE "nest-project"
\* the constructor: JWT_ACCESS_TOKEN_EXPIRATION, unset
AccessTokenExpiration == "15m"

\* jwtService.signAsync(payload, options): the token carries the payload, the
\* issuer of the options and the timing claims made from the clock
SignAsync(payload, options) ==
    [payload |-> payload, iss |-> options.issuer, iat |-> now,
     expiresIn |-> options.expiresIn]

\* the pair returned by generateTokens
AuthTokens(accessToken, refreshToken) ==
    [accessToken |-> accessToken, refreshToken |-> refreshToken]

\* the rows a table can hold for the token values 1 and 2
StoredRows ==
    [token : {1, 2}, userId : Users, expiresAt : 0..(MaxTime + RefreshLifetime),
     revokedAt : {NULL} \cup 0..MaxTime]
\* tables in which the token value is a key
StoredTables ==
    {{}} \cup {{r} : r \in StoredRows}
         \cup {{r1, r2} : r1 \in {r \in StoredRows : r.token = 1},
                          r2 \in {r \in StoredRows : r.token = 2}}

\* generateTokens(userId) is about to run on some table at some time
InitIssue ==
    /\ ledger \in StoredTables
    /\ now \in 0..MaxTime
    /\ nextToken = 3
    /\ logins = 0
    /\ call = [c \in Calls |-> IdleCall]
    /\ PipeIdle
    /\ userAllowedIp = {}
    /\ result = Undefined
    /\ \E u \in Users, issuer \in IssuerSettings :
          args = [fn |-> "generateTokens", userId |-> u,
                  env |-> [JWT_ISSUER |-> issuer]]

\* AuthService.generateTokens: sign the access token (signAsync may reject,
\* and nothing is stored then), store a fresh refresh token, return the pair
GenerateTokensCall ==
    /\ args # Undefined
    /\ args.fn = "generateTokens"
    /\ result = Undefined
    /\ \E signed \in BOOLEAN :
          IF signed
          THEN /\ StoreRefreshToken(args.userId)
               /\ result' = Returned(AuthTokens(
                      SignAsync([sub |-> args.userId],
                                [expiresIn |-> AccessTokenExpiration,
                                 issuer |-> JwtIssuer(args.env)]),
                      nextToken))
          ELSE /\ result' = Thrown("signAsync")
               /\ UNCHANGED <<ledger, nextToken>>
    /\ UNCHANGED <<now, logins, call, pipeVars, userAllowedIp, args>>

NextIssue == GenerateTokensCall

SpecIssue == InitIssue /\ [][NextIssue]_vars


(***************************************************************************)
(* extractClientIp alone, over requests with and without the header.       *)
(***************************************************************************)
\* the placeholder 'unknown'
Unknown == <<"u", "n", "k", "n", "o", "w", "n">>

\* mutant of ExtractClientIp: the peer address is preferred to the header
ExtractClientIp_PeerFirst(request) ==
    IF JsTruthy(request.ip) THEN request.ip.str
    ELSE LET forwardedFor == request.headers.xForwardedFor
         IN IF JsTruthy(forwardedFor)
            THEN Trim(IF forwardedFor.kind = "array"
                      THEN forwardedFor.items[1].str
                      ELSE SplitOn(forwardedFor.str, ",")[1])
            ELSE Unknown

\* IpRestrictionGuard.extractClientIp
ExtractClientIp(request) ==
    LET forwardedFor == request.headers.xForwardedFor
    IN IF JsTruthy(forwardedFor)
       THEN LET ips == IF forwardedFor.kind = "array"
                       THEN forwardedFor.items[1].str
                       ELSE SplitOn(forwardedFor.str, ",")[1]
            IN Trim(ips)
       ELSE IF JsTruthy(request.ip) THEN request.ip.str ELSE Unknown

\* header values over an address character, the comma and the space
HeaderStrings ==
    UNION {[1..n -> {"1", ",", " "}] : n \in 0..MaxHeaderLen}
\* request.headers['x-forwarded-for']: undefined, a string, or an array of
\* the values of repeated header lines
ForwardedForHeaders ==
    {Absent} \cup {StringClaim(str) : str \in HeaderStrings}
             \cup {ArrayClaim(<<str>>) : str \in HeaderStrings}
             \cup {ArrayClaim(<<<<" ", "1">>, str>>) : str \in HeaderStrings}
\* request.ip
PeerAddresses == {Absent, StringClaim(<<"9">>), StringClaim(<<"8">>)}

\* extractClientIp is about to run on a request
InitClientIp ==
    /\ LedgerIdle
    /\ PipeIdle
    /\ userAllowedIp = {}
    /\ result = Undefined
    /\ \E forwardedFor \in ForwardedForHeaders, ip \in PeerAddresses :
          args = [fn |-> "extractClientIp",
                  request |-> [headers |-> [xForwardedFor |-> forwardedFor],
                               ip |-> ip]]

\* IpRestrictionGuard.extractClientIp returns
ExtractClientIpCall ==
    /\ args.fn = "extractClientIp"
    /\ result = Undefined
    /\ result' = Returned(ExtractClientIp(args.request))
    /\ UNCHANGED <<ledgerVars, pipeVars, userAllowedIp, args>>

NextClientIp == ExtractClientIpCall

SpecClientIp == InitClientIp /\ [][NextClientIp]_vars


(***************************************************************************)
(* calculateExpirationDate alone, in milliseconds.  A number too large for *)
(* a 32-bit integer is the sequence of its decimal digits, least           *)
(* significant first, without leading zeros (zero is the empty sequence).  *)
(* Every quantity that can become a valid Date is below 2^53, where the    *)
(* double arithmetic of the code is exact; rounding above it is monotone   *)
(* and cannot bring a value back into the range of a Date.                 *)
(***************************************************************************)
DigitChars == <<"0", "1", "2", "3", "4", "5", "6", "7", "8", "9">>
IsDigit(ch) == \E i \in DOMAIN DigitChars : DigitChars[i] = ch
DigitValue(ch) == (CHOOSE i \in DOMAIN DigitChars : DigitChars[i] = ch) - 1

\* the number n as digits
RECURSIVE NumberOf(_)
NumberOf(n) == IF n = 0 THEN <<>> ELSE <<n % 10>> \o NumberOf(n \div 10)

\* parseInt(text, 10) on a string of decimal digits
RECURSIVE ParseInt(_)
ParseInt(text) ==
    IF text = <<>> THEN <<>>
    ELSE LET rest == ParseInt(Tail(text))
             d == DigitValue(Head(text))
             \* the head is the most significant digit of what is left
             padded == rest \o [i \in 1..(Len(text) - 1 - Len(rest)) |-> 0]
         IN IF d = 0 THEN rest ELSE Append(padded, d)

\* v * k for a small factor k
RECURSIVE TimesFrom(_, _, _)
TimesFrom(v, k, carry) ==
    IF v = <<>> THEN NumberOf(carry)
    ELSE LET t == Head(v) * k + carry
         IN <<t % 10>> \o TimesFrom(Tail(v), k, t \div 10)
Times(v, k) == TimesFrom(v, k, 0)

\* v + w
RECURSIVE PlusFrom(_, _, _)
PlusFrom(v, w, carry) ==
    IF v = <<>> /\ w = <<>> THEN NumberOf(carry)
    ELSE LET a == IF v = <<>> THEN 0 ELSE Head(v)
             b == IF w = <<>> THEN 0 ELSE Head(w)
             t == a + b + carry
         IN <<t % 10>> \o PlusFrom(IF v = <<>> THEN v ELSE Tail(v),
                                   IF w = <<>> THEN w ELSE Tail(w),
                                   t \div 10)
PlusNumber(v, w) == PlusFrom(v, w, 0)

\* v <= w
RECURSIVE NumberLeq(_, _)
NumberLeq(v, w) ==
    IF Len(v) # Len(w) THEN Len(v) < Len(w)
    ELSE IF v = <<>> THEN TRUE
    ELSE IF v[Len(v)] # w[Len(w)] THEN v[Len(v)] < w[Len(w)]
    ELSE NumberLeq(SubSeq(v, 1, Len(v) - 1), SubSeq(w, 1, Len(w) - 1))

\* the largest time value of a Date: 8,640,000,000,000,000 ms
MaxTimeValue == <<0, 0, 0, 0, 0, 0, 0, 0, 0, 0, 0, 0, 0, 4, 6, 8>>
InvalidDate == [invalid |-> TRUE]
\* new Date(value): TimeClip
NewDate(value) ==
    IF NumberLeq(value, MaxTimeValue) THEN [time |-> value] ELSE InvalidDate

\* expiration.match(/^(\d+)([smhd])$/) finds a match
ExpirationMatches(expiration) ==
    /\ Len(expiration) >= 2
    /\ expiration[Len(expiration)] \in {"s", "m", "h", "d"}
    /\ \A i \in 1..(Len(expiration) - 1) : IsDigit(expiration[i])

\* mutant of CalculateExpirationDateAt: hours are counted as minutes
CalculateExpirationDateAt_HoursAsMinutes(expiration, nowMs) ==
    IF ~ExpirationMatches(expiration)
    THEN NewDate(PlusNumber(nowMs,
             Times(Times(Times(Times(NumberOf(7), 24), 60), 60), 1000)))
    ELSE LET value == ParseInt(SubSeq(expiration, 1, Len(expiration) - 1))
             unit == expiration[Len(expiration)]
         IN IF unit = "s" THEN NewDate(PlusNumber(nowMs, Times(value, 1000)))
            ELSE IF unit \in {"m", "h"}
            THEN NewDate(PlusNumber(nowMs, Times(Times(value, 60), 1000)))
            ELSE NewDate(PlusNumber(nowMs,
                     Times(Times(Times(Times(value, 24), 60), 60), 1000)))

\* AuthService.calculateExpirationDate, with now.getTime() = nowMs
CalculateExpirationDateAt(expiration, nowMs) ==
    IF ~ExpirationMatches(expiration)
    THEN NewDate(PlusNumber(nowMs,
             Times(Times(Times(Times(NumberOf(7), 24), 60), 60), 1000)))
    ELSE LET value == ParseInt(SubSeq(expiration, 1, Len(expiration) - 1))
             unit == expiration[Len(expiration)]
         IN IF unit = "s" THEN NewDate(PlusNumber(nowMs, Times(value, 1000)))
            ELSE IF unit = "m"
            THEN NewDate(PlusNumber(nowMs, Times(Times(value, 60), 1000)))
            ELSE IF unit = "h"
            THEN NewDate(PlusNumber(nowMs,
                     Times(Times(Times(value, 60), 60), 1000)))
            ELSE NewDate(PlusNumber(nowMs,
                     Times(Times(Times(Times(value, 24), 60), 60), 1000)))

\* values of JWT_REFRESH_TOKEN_EXPIRATION: an optional sign or space, digits,
\* and a tail that is a unit, no unit, or something else
ExpirationDigits ==
    UNION {[1..n -> {"0", "1"}] : n \in 0..MaxDigits}
        \cup {<<"7">>, <<"1", "5">>, <<"9", "0">>}
ExpirationTails ==
    {<<"s">>, <<"m">>, <<"h">>, <<"d">>, <<"w">>, <<>>, <<"d", "d">>}
ExpirationSettings ==
    {prefix \o digits \o tail :
        prefix \in {<<>>, <<"-">>}, digits \in ExpirationDigits,
        tail \in ExpirationTails}
\* readings of the clock: the epoch, one millisecond later, and a recent date
ClockReadings == {<<>>, <<1>>, <<0, 0, 0, 0, 0, 6, 7, 7, 5, 3, 9, 7, 1>>}

\* calculateExpirationDate is about to run
InitExpiration ==
    /\ LedgerIdle
    /\ PipeIdle
    /\ userAllowedIp = {}
    /\ result = Undefined
    /\ \E expiration \in ExpirationSettings, nowMs \in ClockReadings :
          args = [fn |-> "calculateExpirationDate", expiration |-> expiration,
                  nowMs |-> nowMs]

\* AuthService.calculateExpirationDate returns
CalculateExpirationDateCall ==
    /\ args.fn = "calculateExpirationDate"
    /\ result = Undefined
    /\ result' = Returned(CalculateExpirationDateAt(args.expiration, args.nowMs))
    /\ UNCHANGED <<ledgerVars, pipeVars, userAllowedIp, args>>

NextExpiration == CalculateExpirationDateCall

SpecExpiration == InitExpiration /\ [][NextExpiration]_vars


(***************************************************************************)
(* Claims about the refresh-token ledger, checked under Spec.              *)
(***************************************************************************)
RefreshCalls(t) == {c \in Calls : call[c].op = "refresh" /\ call[c].token = t}
RotatedOK(t) == \E c \in RefreshCalls(t) : call[c].result = "OK"
RowsOf(t) == {r \in ledger : r.token = t}

\* C1: every refresh token is exchanged for a new pair at most once, over
\* every interleaving of concurrent rotate(t) calls.
C1_AtMostOneRotation ==
    \A t \in 1..MaxTokens :
        Cardinality({c \in RefreshCalls(t) : call[c].result = "OK"}) <= 1

\* C2: a successful rotate(t) has returned a new refresh token different from
\* t, and every rotate(t) that starts afterwards, while t's row has not been
\* swept, fails with REFRESH_TOKEN_REVOKED.
C2_ReplayRejected ==
    /\ [](\A c \in Calls :
            (call[c].op = "refresh" /\ call[c].result = "OK")
                => (call[c].newToken # call[c].token
                    /\ call[c].newToken # UnknownToken))
    /\ [][\A c \in Calls, t \in 1..MaxTokens :
            (/\ RotatedOK(t)
             /\ RowsOf(t) # {}
             /\ call[c].pc = "idle"
             /\ call'[c].op = "refresh"
             /\ call'[c].token = t)
                => (call'[c].pc = "done"
                    /\ call'[c].result = "REFRESH_TOKEN_REVOKED")]_vars

\* C2 witness: a rotation of t succeeded and a rotation of t started after it
\* was rejected as revoked, no logout being involved.
C2_Witness ==
    \E c1, c2 \in Calls :
        /\ c1 < c2
        /\ call[c1].op = "refresh" /\ call[c1].result = "OK"
        /\ call[c2].op = "refresh" /\ call[c2].token = call[c1].token
        /\ call[c2].result = "REFRESH_TOKEN_REVOKED"
        /\ \A c \in Calls : call[c].op \notin {"logout", "logoutAll"}

\* C3: rotate(t) is all-or-nothing: a rotate call that has ended either
\* revoked t and created the new row, or did neither.
C3_AllOrNothing ==
    \A c \in Calls :
        (call[c].op = "refresh" /\ call[c].pc = "done")
            => (call[c].wrote <=> call[c].newToken # UnknownToken)

\* C6: rotate(t) fails with REFRESH_TOKEN_INVALID when no row holds t, with
\* REFRESH_TOKEN_REVOKED when t's row is revoked (expired or not), with
\* REFRESH_TOKEN_EXPIRED when t's row is unrevoked and past expiry; a failing
\* call creates and modifies no row.
C6_RotateFailures ==
    [][\A c \in Calls, t \in 0..MaxTokens :
         (call[c].pc = "idle" /\ call'[c].op = "refresh" /\ call'[c].token = t)
            => /\ (RowsOf(t) = {})
                    => (call'[c].pc = "done"
                        /\ call'[c].result = "REFRESH_TOKEN_INVALID")
               /\ \A r \in RowsOf(t) :
                    /\ (r.revokedAt # NULL)
                         => (call'[c].pc = "done"
                             /\ call'[c].result = "REFRESH_TOKEN_REVOKED")
                    /\ (r.revokedAt = NULL /\ r.expiresAt < now)
                         => (call'[c].pc = "done"
                             /\ call'[c].result = "REFRESH_TOKEN_EXPIRED")
               /\ (call'[c].pc = "done")
                    => (ledger' = ledger /\ ~call'[c].wrote
                        /\ call'[c].newToken = UnknownToken)]_vars

\* C6 witness: a rotate of an expired, unrevoked token has failed with
\* REFRESH_TOKEN_EXPIRED and the row is still unrevoked.
C6_Witness ==
    \E c \in Calls :
        /\ call[c].op = "refresh" /\ call[c].pc = "done"
        /\ call[c].result = "REFRESH_TOKEN_EXPIRED"
        /\ \E r \in RowsOf(call[c].token) :
              r.revokedAt = NULL /\ r.expiresAt < now

\* C7: logout(userId, t) writes only when t's row exists and is owned by
\* userId, and then only that row's revocation timestamp; when t is unknown
\* or owned by another user no row changes and the call ends with the same
\* empty result as a successful revocation.
C7_LogoutOwnerOnly ==
    [][\A c \in Calls :
         /\ (call[c].pc = "idle" /\ call'[c].op = "logout")
               => \A u \in Users :
                    LET t == call'[c].token
                    IN LogoutRead(c, u, t)
                         => IF \E r \in RowsOf(t) : r.userId = u
                            THEN call'[c].pc = "revoke" /\ ledger' = ledger
                            ELSE /\ call'[c].pc = "done"
                                 /\ call'[c].result = "OK"
                                 /\ ledger' = ledger
         /\ (call[c].op = "logout" /\ call[c].pc = "revoke"
               /\ call'[c].pc = "done" /\ ledger' # ledger)
                => /\ call'[c].result = "OK"
                   /\ ledger' = (ledger \ RowsOf(call[c].token)) \cup
                         {[r EXCEPT !.revokedAt = now] :
                             r \in RowsOf(call[c].token)}]_vars

\* C7 witness: a logout of another user's unrevoked token has ended with the
\* empty result and the row is still unrevoked.
C7_Witness ==
    \E c \in Calls :
        /\ call[c].op = "logout" /\ call[c].pc = "done"
        /\ call[c].result = "OK" /\ ~call[c].wrote
        /\ \E r \in RowsOf(call[c].token) : r.revokedAt = NULL

\* C8: right after revokeAll(u) every row owned by u is revoked, rows of u
\* that were already revoked are as they were, and every other user's rows
\* are unchanged.
C8_RevokeAll ==
    [][\A c \in Calls, u \in Users :
         (call[c].pc = "idle" /\ call'[c].op = "logoutAll" /\ LogoutAll(c, u))
            => /\ \A r \in ledger :
                    (r.userId = u)
                       => \E r2 \in ledger' :
                            /\ r2.token = r.token
                            /\ r2.userId = r.userId
                            /\ r2.expiresAt = r.expiresAt
                            /\ r2.revokedAt # NULL
                            /\ (r.revokedAt # NULL) => (r2 = r)
               /\ \A r \in ledger : (r.userId # u) => (r \in ledger')
               /\ Cardinality(ledger') = Cardinality(ledger)]_vars

\* C8 witness: a revokeAll has run and revoked a row that no logout or
\* rotation wrote to.
C8_Witness ==
    \E c \in Calls :
        /\ call[c].op = "logoutAll" /\ call[c].pc = "done"
        /\ \E r \in ledger : r.revokedAt # NULL
        /\ \A d \in Calls : ~call[d].wrote


(***************************************************************************)
(* Claims about the guard pipeline, checked under SpecPipeline.            *)
(***************************************************************************)
Finished == outcome.code # "running" /\ outcome.code # "none"
Allowed == outcome.code = "allowed"
NonPublic == GetAllAndOverride(req.isPublic) = <<>>
StageVerdict(n) == evaluated[n].verdict
StageNames == <<"jwt", "ip", "roles", "scopes">>

\* the effective requirement: the handler's declaration, else the class's
Declared(meta) ==
    IF meta.handler # <<>> THEN meta.handler[1]
    ELSE IF meta.class # <<>> THEN meta.class[1]
    ELSE <<>>

\* the claims of the bearer when passport-jwt produced a payload
Authenticated == req.auth.err = Undefined /\ req.auth.user # Undefined
HeldRoles == Range(ExtractRoles(req.auth.user))
HeldScopes == Range(ExtractScopes(req.auth.user))

\* one-way wildcard match of a held scope u against a required scope r
Covers(u, r) ==
    \/ u = r
    \/ u = <<"*">>
    \/ /\ Len(u) >= 2
       /\ u[Len(u) - 1] = ":"
       /\ u[Len(u)] = "*"
       /\ Len(r) >= Len(u) - 1
       /\ \A i \in 1..(Len(u) - 1) : r[i] = u[i]

RoleSatisfied ==
    Declared(req.roles) = <<>>
    \/ Range(Declared(req.roles)) \cap HeldRoles # {}
ScopeSatisfied ==
    Declared(req.scopes) = <<>>
    \/ \E r \in Range(Declared(req.scopes)), u \in HeldScopes : Covers(u, r)
IpSatisfied ==
    \/ GetAllAndOverride(req.skipIpRestriction) = <<TRUE>>
    \/ req.auth.user.sub # "u1"
    \/ req.clientIp = <<10, 0, 0, 1>>

\* the error of the first failing stage in the order authenticate, IP,
\* role, scope; Pass when no stage fails
FirstFailure ==
    IF ~Authenticated
    THEN ConvertToBusinessException(
             IF req.auth.err # Undefined THEN req.auth.err ELSE req.auth.info)
    ELSE IF ~IpSatisfied THEN Outcome("IP_NOT_ALLOWED", 403)
    ELSE IF ~RoleSatisfied THEN Outcome("INSUFFICIENT_PERMISSIONS", 403)
    ELSE IF ~ScopeSatisfied THEN Outcome("INSUFFICIENT_SCOPE", 403)
    ELSE Pass

\* C4: on a non-public endpoint the stages are evaluated in the order
\* authenticate, IP-restrict, role-check, scope-check; a stage is evaluated
\* only after every earlier stage passed; the request is allowed only when
\* all four passed, so a declared role requirement and a declared scope
\* requirement are both satisfied; and a rejected request carries the error
\* of the first failing stage in that order.
C4_StageOrder ==
    NonPublic =>
        /\ Len(evaluated) <= 4
        /\ \A n \in 1..Len(evaluated) : evaluated[n].guard = StageNames[n]
        /\ \A n \in 1..(Len(evaluated) - 1) : StageVerdict(n) = Pass
        /\ Allowed =>
             /\ Len(evaluated) = 4
             /\ \A n \in 1..4 : StageVerdict(n) = Pass
             /\ Authenticated /\ IpSatisfied
             /\ RoleSatisfied /\ ScopeSatisfied
        /\ Finished =>
             /\ outcome = (IF FirstFailure = Pass THEN Outcome("allowed", 0)
                           ELSE FirstFailure)
             /\ ~Allowed => StageVerdict(Len(evaluated)) = outcome

\* a request that fails both the IP stage and the role stage has been
\* rejected by the IP stage, before the role stage was evaluated
C4_Witness ==
    /\ NonPublic
    /\ Authenticated
    /\ Declared(req.roles) # <<>>
    /\ Declared(req.scopes) # <<>>
    /\ ~IpSatisfied
    /\ ~RoleSatisfied
    /\ outcome = Outcome("IP_NOT_ALLOWED", 403)
    /\ Len(evaluated) = 2

\* C5: a request to an endpoint marked public, at method or class level,
\* always ends in success, whatever its credentials, its client IP and the
\* endpoint's declared roles and scopes, and neither token verification nor
\* the allowlist lookup is called.
C5_PublicAlwaysAllowed ==
    (~NonPublic /\ Finished) =>
        /\ Allowed
        /\ verifyCalls = 0
        /\ ipLookups = 0

\* C10: with a non-empty effective required-roles list and an authenticated
\* request, the role stage passes if and only if some required role is among
\* the roles extracted from the claims, and otherwise rejects with
\* INSUFFICIENT_PERMISSIONS, status 403.
C10_RoleCheck ==
    (/\ Len(evaluated) >= 3
     /\ Declared(req.roles) # <<>>
     /\ user # Undefined) =>
        /\ StageVerdict(3) = Pass
             <=> Range(Declared(req.roles)) \cap Range(ExtractRoles(user)) # {}
        /\ StageVerdict(3) # Pass
             => /\ StageVerdict(3) = Outcome("INSUFFICIENT_PERMISSIONS", 403)
                /\ outcome = StageVerdict(3)

\* the role stage passed a bearer who holds one of two required roles
C10_Witness ==
    /\ Len(evaluated) >= 3
    /\ user # Undefined
    /\ Len(Declared(req.roles)) = 2
    /\ Cardinality(Range(Declared(req.roles)) \cap Range(ExtractRoles(user))) = 1
    /\ StageVerdict(3) = Pass

\* the error object that describes an authentication failure
FailureError == IF req.auth.err # Undefined THEN req.auth.err ELSE req.auth.info

\* C15: on a non-public endpoint an authentication failure is raised as
\* exactly one of TOKEN_MISSING, TOKEN_EXPIRED and TOKEN_INVALID with status
\* 401: TOKEN_MISSING when the header is absent, is not 'Bearer <token>' or
\* has an empty token (no user and no error object, or a 'no auth token' or
\* 'jwt must be provided' message), TOKEN_EXPIRED when the message reports
\* expiry, TOKEN_INVALID otherwise; on success the payload is handed on
\* unchanged.
C15_AuthErrors ==
    (NonPublic /\ Len(evaluated) >= 1) =>
        LET v == StageVerdict(1) IN
        /\ v = Pass <=> Authenticated
        /\ v = Pass => user = req.auth.user
        /\ v # Pass =>
             /\ v.status = 401
             /\ v.code \in {"TOKEN_MISSING", "TOKEN_EXPIRED", "TOKEN_INVALID"}
             /\ outcome = v
             /\ v.code = "TOKEN_MISSING"
                  <=> \/ FailureError = Undefined
                      \/ FailureError \in {ErrorOf("No auth token"),
                                           ErrorOf("jwt must be provided")}
             /\ v.code = "TOKEN_EXPIRED"
                  <=> FailureError \in {ErrorOf("jwt expired"),
                                        ErrorOf("Token expired")}
        /\ ~HasBearerToken(req.auth.header) => v = Outcome("TOKEN_MISSING", 401)

\* a request whose header is not a bearer header was rejected with
\* TOKEN_MISSING
C15_Witness ==
    /\ NonPublic
    /\ Len(evaluated) = 1
    /\ req.auth.header = Header("Basic", "abc")
    /\ outcome = Outcome("TOKEN_MISSING", 401)

\* C14: the IP stage passes without an allowlist lookup when the endpoint is
\* public or marked skip-IP-restriction; otherwise, for an authenticated
\* request, it asks isIpAllowed about the claims' subject and the extracted
\* client IP, and rejects with IP_NOT_ALLOWED, status 403, exactly when the
\* answer is false.
C14_IpStage ==
    Len(evaluated) >= 2 =>
        /\ (req.isPublic # NoMeta \/ req.skipIpRestriction # NoMeta)
             => /\ StageVerdict(2) = Pass
                /\ ipLookups = 0
                /\ args = Undefined
        /\ (req.isPublic = NoMeta /\ req.skipIpRestriction = NoMeta
              /\ user # Undefined)
             => /\ ipLookups = 1
                /\ args = IsIpAllowedArgs(user.sub, req.clientIp)
                /\ result \in {Returned(TRUE), Returned(FALSE)}
                /\ result = Returned(FALSE)
                     <=> StageVerdict(2) = Outcome("IP_NOT_ALLOWED", 403)
                /\ result = Returned(TRUE) <=> StageVerdict(2) = Pass

\* a restricted bearer calling from another address was rejected by the IP
\* stage after one lookup
C14_Witness ==
    /\ Len(evaluated) = 2
    /\ req.isPublic = NoMeta
    /\ req.skipIpRestriction = NoMeta
    /\ user # Undefined
    /\ result = Returned(FALSE)
    /\ outcome = Outcome("IP_NOT_ALLOWED", 403)

(***************************************************************************)
(* Claim about scope matching, checked under SpecScopes.                   *)
(***************************************************************************)
\* the strings of the scope array the bearer carries
HeldScopeItems == {user.scope.items[i].str : i \in DOMAIN user.scope.items}

\* C9: with required scopes declared and an authenticated request, the scope
\* stage allows the request if and only if some held scope u and some
\* required scope r satisfy u = r, or u = '*', or u ends in ':*' and r
\* starts with u minus its trailing '*'; otherwise it rejects with
\* INSUFFICIENT_SCOPE.  A held 'a:r' satisfies neither a required 'a:*' nor
\* a required '*'.
C9_ScopeMatch ==
    (/\ Len(evaluated) = 4
     /\ Declared(req.scopes) # <<>>
     /\ user # Undefined) =>
        /\ Allowed <=> \E r \in Range(Declared(req.scopes)),
                          u \in HeldScopeItems : Covers(u, r)
        /\ ~Allowed => outcome = Outcome("INSUFFICIENT_SCOPE", 403)
        /\ (/\ user.scope = ArrayClaim(<<ScopeAR>>)
            /\ Declared(req.scopes) \in {<<ScopeAStar>>, <<ScopeStar>>})
             => ~Allowed

\* a held prefix wildcard has let through a different required scope
C9_Witness ==
    /\ Len(evaluated) = 4
    /\ user.scope = ArrayClaim(<<ScopeAStar>>)
    /\ Declared(req.scopes) = <<ScopeAR>>
    /\ Allowed

\* C11: an endpoint whose effective required-roles declaration is absent or
\* the empty list passes the role stage for every request, and one whose
\* effective required-scopes declaration is absent or empty passes the scope
\* stage for every request, whatever roles and scopes the claims carry.
C11_NoRequirementPasses ==
    /\ (Len(evaluated) >= 3 /\ Declared(req.roles) = <<>>)
         => StageVerdict(3) = Pass
    /\ (Len(evaluated) >= 4 /\ Declared(req.scopes) = <<>>)
         => StageVerdict(4) = Pass

\* both stages passed a bearer who carries roles and scopes on an endpoint
\* that declares an empty role list and an empty scope list
C11_Witness ==
    /\ Len(evaluated) = 4
    /\ req.roles.handler = <<<<>>>>
    /\ req.scopes.handler = <<<<>>>>
    /\ user # Undefined
    /\ ExtractRoles(user) # <<>>
    /\ ExtractScopes(user) # <<>>
    /\ StageVerdict(3) = Pass
    /\ StageVerdict(4) = Pass

(***************************************************************************)
(* Claims about IpRestrictionService, checked under SpecIp.                *)
(***************************************************************************)
\* the top n bits of two IPv4 addresses agree, octet by octet
TopBitsEqual(a, b, n) ==
    LET q == n \div 8
        r == n % 8
    IN /\ \A j \in 1..q : a[j] = b[j]
       /\ r > 0 => a[q + 1] \div (2 ^ (8 - r)) = b[q + 1] \div (2 ^ (8 - r))

\* an allowlist entry admits an address
Admits(entry, ip) ==
    IF entry.bits = NULL THEN entry.range = ip
    ELSE TopBitsEqual(ip, entry.range, entry.bits)

\* C12: isIpAllowed(userId, ip) is true when userId has no allowlist rows,
\* and otherwise is true if and only if some row of userId equals ip or is a
\* CIDR block containing ip; rows of other users play no part.
C12_IsIpAllowed ==
    (args # Undefined /\ args.fn = "isIpAllowed" /\ result # Undefined) =>
        LET own == {r \in userAllowedIp : r.userId = args.userId}
        IN result.value =
             (own = {} \/ \E r \in own : Admits(r.ipAddress, args.ipAddress))

\* a user with rows was refused an address that another user's row admits
C12_Witness ==
    /\ args # Undefined
    /\ args.fn = "isIpAllowed"
    /\ result = Returned(FALSE)
    /\ \E r \in userAllowedIp :
          r.userId # args.userId /\ Admits(r.ipAddress, args.ipAddress)

\* C13: for IPv4 addresses ip and range and a prefix length n in 0..32,
\* matchCidr(ip, range/n) is true if and only if the top n bits of the two
\* addresses are equal; n = 0 matches every address, n = 32 requires equal
\* addresses, and addresses with first octet 128 or more compare correctly.
C13_MatchCidr ==
    (args # Undefined /\ args.fn = "matchCidr" /\ result # Undefined) =>
        /\ result.value =
             TopBitsEqual(args.ip, args.cidr.range, args.cidr.bits)
        /\ args.cidr.bits = 0 => result.value
        /\ args.cidr.bits = 32 => (result.value <=> args.ip = args.cidr.range)

\* two different addresses with the sign bit set matched on a prefix that
\* ends inside an octet
C13_Witness ==
    /\ args # Undefined
    /\ args.fn = "matchCidr"
    /\ args.ip[1] >= 128
    /\ args.ip # args.cidr.range
    /\ args.cidr.bits % 8 # 0
    /\ result = Returned(TRUE)

(***************************************************************************)
(* Claims about JwtVerificationService.verify, checked under SpecVerify.   *)
(***************************************************************************)
Configured(opt) == opt \notin {<<>>, <<"">>}
Settled == args # Undefined /\ args.fn = "verify" /\ result # Undefined
AuthCodes == {"TOKEN_MISSING", "TOKEN_INVALID", "TOKEN_EXPIRED"}

SoundUntilTimeChecks ==
    /\ ~args.token.malformed
    /\ args.token.algAllowed
    /\ IF Configured(args.config.jwksUri)
       THEN args.token.kid /\ args.fetch = "found"
              /\ args.token.signedWith = "jwks"
       ELSE args.token.signedWith = "secret"
ClaimsAccepted ==
    /\ Configured(args.config.issuer) => args.token.issOk
    /\ Configured(args.config.audience) => args.token.audOk

\* C17: with a key source configured a failed verify yields exactly one of
\* TOKEN_EXPIRED and TOKEN_INVALID: TOKEN_EXPIRED if and only if the failure
\* is elapsed expiry, TOKEN_INVALID for a not-yet-valid token, bad signature,
\* malformed structure, disallowed algorithm, issuer or audience mismatch,
\* missing kid, unknown key id or failed key fetch; a successful verify
\* returns claims whose sub is the signed subject.
C17_VerifyErrors ==
    (Settled /\ (Configured(args.config.jwksUri)
                   \/ Configured(args.config.secret))) =>
        /\ result.ok <=> (/\ SoundUntilTimeChecks
                          /\ ~args.token.notYetValid
                          /\ ~args.token.expired
                          /\ ClaimsAccepted)
        /\ result.ok => result.payload.sub = args.token.sub
        /\ ~result.ok =>
             /\ result.error \in {Outcome("TOKEN_EXPIRED", 401),
                                  Outcome("TOKEN_INVALID", 401)}
             /\ result.error.code = "TOKEN_EXPIRED"
                  <=> (/\ SoundUntilTimeChecks
                       /\ ~args.token.notYetValid
                       /\ args.token.expired)

\* a token presented before its nbf, otherwise sound, was rejected as invalid
C17_Witness ==
    /\ Settled
    /\ Configured(args.config.secret)
    /\ ~Configured(args.config.jwksUri)
    /\ SoundUntilTimeChecks
    /\ args.token.notYetValid
    /\ ~args.token.expired
    /\ result.error = Outcome("TOKEN_INVALID", 401)

(***************************************************************************)
(* Claims about claim extraction, checked under SpecClaims.                *)
(***************************************************************************)
Extracted == args # Undefined /\ result # Undefined
                /\ args.fn \in {"extractRoles", "extractScopes"}

\* the claim path in force
PathInForce ==
    LET setting == IF args.fn = "extractRoles" THEN args.env.rolesClaim
                   ELSE args.env.scopesClaim
    IN IF setting \in {<<>>, <<<<>>>>}
       THEN (IF args.fn = "extractRoles" THEN <<"roles">> ELSE <<"scope">>)
       ELSE setting[1]

\* the delimiter in force
DelimiterInForce ==
    IF args.env.scopesDelimiter \in {<<>>, <<"">>} THEN " "
    ELSE args.env.scopesDelimiter[1]

Missing == [kind |-> "missing"]

\* the value found by following a path through own properties only; Missing
\* when a segment is absent or the value on the way is not an object or array
RECURSIVE Lookup(_, _)
Lookup(value, path) ==
    IF path = <<>> THEN value
    ELSE LET key == Head(path) IN
         IF value.kind = "object"
         THEN IF key \in DOMAIN value.fields /\ value.fields[key] # Absent
              THEN Lookup(value.fields[key], Tail(path))
              ELSE Missing
         ELSE IF value.kind = "array"
         THEN IF key = "length" THEN Lookup(JNumber(Len(value.items)), Tail(path))
              ELSE IF key = "0" /\ Len(value.items) >= 1
              THEN Lookup(value.items[1], Tail(path))
              ELSE Missing
         ELSE Missing

Found == Lookup(args.payload, PathInForce)

\* C18: extractRoles and extractScopes return the empty list, and do not
\* throw, when a segment of the configured claim path is missing, when a
\* value on the way is not an object (null, string, number, boolean), and
\* when the value found is neither an array nor a string.
C18_ExtractTotal ==
    Extracted =>
        /\ DOMAIN result = {"value"}
        /\ Found.kind \notin {"array", "string"} => result = Returned(<<>>)

\* a two-segment path met a string on the way and the call returned the
\* empty list
C18_Witness ==
    /\ Extracted
    /\ PathInForce = <<"a", "b">>
    /\ args.payload.fields.a.kind = "string"
    /\ args.payload.fields.a.str # <<>>
    /\ result = Returned(<<>>)

\* the positions of the string elements of an array, and the k-th of them
StringPositions(items) == {i \in DOMAIN items : items[i].kind = "string"}
KthStringPosition(items, k) ==
    CHOOSE i \in StringPositions(items) :
        Cardinality({j \in StringPositions(items) : j <= i}) = k

\* the pieces of s between delimiters, by one left-to-right scan
RECURSIVE Scan(_, _, _, _)
Scan(s, d, piece, pieces) ==
    IF s = <<>> THEN Append(pieces, piece)
    ELSE IF Head(s) = d THEN Scan(Tail(s), d, <<>>, Append(pieces, piece))
    ELSE Scan(Tail(s), d, Append(piece, Head(s)), pieces)

\* a piece without its leading and trailing spaces
Stripped(piece) ==
    LET inked == {i \in DOMAIN piece : piece[i] # " "}
    IN IF inked = {} THEN <<>>
       ELSE SubSeq(piece,
                   CHOOSE i \in inked : \A j \in inked : i <= j,
                   CHOOSE i \in inked : \A j \in inked : i >= j)

Fragments(s, d) ==
    LET pieces == Scan(s, d, <<>>, <<>>)
    IN SelectSeq([i \in DOMAIN pieces |-> Stripped(pieces[i])],
                 LAMBDA f : f # <<>>)

\* C19: an array claim yields exactly its string elements in their order; a
\* string claim yields, for extractRoles, the list of that one string, and
\* for extractScopes its fragments split on the delimiter in force (a space
\* when unset or empty), each trimmed, with empty fragments dropped, so that
\* no such scope is empty or begins or ends with a space.
C19_ExtractValues ==
    Extracted =>
        /\ Found.kind = "array" =>
             /\ DOMAIN result = {"value"}
             /\ Len(result.value) = Cardinality(StringPositions(Found.items))
             /\ \A k \in 1..Len(result.value) :
                   result.value[k]
                     = Found.items[KthStringPosition(Found.items, k)].str
        /\ (Found.kind = "string" /\ args.fn = "extractRoles")
             => result = Returned(<<Found.str>>)
        /\ (Found.kind = "string" /\ args.fn = "extractScopes")
             => /\ result = Returned(Fragments(Found.str, DelimiterInForce))
                /\ \A k \in 1..Len(result.value) :
                      /\ result.value[k] # <<>>
                      /\ result.value[k][1] # " "
                      /\ result.value[k][Len(result.value[k])] # " "

\* a comma-separated scope string with a padded and an empty fragment gave
\* the one trimmed scope
C19_Witness ==
    /\ Extracted
    /\ args.fn = "extractScopes"
    /\ Found = StringClaim(<<" ", "a", ",">>)
    /\ DelimiterInForce = ","
    /\ result = Returned(<<<<"a">>>>)

(***************************************************************************)
(* Claim about metadata resolution, checked under SpecPipeline.            *)
(***************************************************************************)
\* the declaration in force: the method's when there is one, else the class's
\* (a one-element tuple), else <<>>
InForce(meta) == IF meta.handler # <<>> THEN meta.handler ELSE meta.class
FlagInForce(meta) == InForce(meta) = <<TRUE>>
ListInForce(meta) == IF InForce(meta) = <<>> THEN <<>> ELSE InForce(meta)[1]

\* C20: for the public flag, the skip-IP-restriction flag, the required
\* roles and the required scopes, each stage acts on the method-level
\* declaration whenever one exists and on the class-level one only otherwise;
\* a method-level role or scope list replaces the class-level list and is
\* never merged with it.
C20_MethodOverridesClass ==
    /\ Len(evaluated) >= 1 =>
         IF FlagInForce(req.isPublic)
         THEN StageVerdict(1) = Pass /\ verifyCalls = 0
         ELSE StageVerdict(1) = Pass <=> Authenticated
    /\ (Len(evaluated) >= 2 /\ ~FlagInForce(req.isPublic)) =>
         IF FlagInForce(req.skipIpRestriction)
         THEN StageVerdict(2) = Pass /\ ipLookups = 0
         ELSE ipLookups = 1
    /\ (Len(evaluated) >= 3 /\ user # Undefined) =>
         (StageVerdict(3) = Pass
            <=> \/ ListInForce(req.roles) = <<>>
                \/ Range(ListInForce(req.roles))
                     \cap Range(ExtractRoles(user)) # {})
    /\ (Len(evaluated) >= 4 /\ user # Undefined) =>
         (StageVerdict(4) = Pass
            <=> \/ ListInForce(req.scopes) = <<>>
                \/ \E r \in Range(ListInForce(req.scopes)),
                      u \in Range(ExtractScopes(user)) : Covers(u, r))

\* a bearer holding only the class-level role was rejected by a method that
\* declares another role
C20_Witness ==
    /\ Len(evaluated) >= 3
    /\ user # Undefined
    /\ req.roles = OnBoth(<<"moderator">>, <<"admin">>)
    /\ ExtractRoles(user) = <<"admin">>
    /\ StageVerdict(3) = Outcome("INSUFFICIENT_PERMISSIONS", 403)

(***************************************************************************)
(* Further claims about the refresh-token ledger, checked under Spec.      *)
(***************************************************************************)
\* a row is live when it is neither revoked nor past its expiry
Live(r) == r.revokedAt = NULL /\ ~(r.expiresAt < now)
\* the row r is still in the table after the step, with the same token
\* value, owner and expiry
Kept(r) ==
    \E r2 \in ledger' :
        /\ r2.token = r.token
        /\ r2.userId = r.userId
        /\ r2.expiresAt = r.expiresAt

\* C21: no step of issue, rotate, revoke or revokeAll deletes a row or
\* changes a row's token value, owner or expiry; a row disappears only in a
\* step that removes exactly the expired or revoked rows, never a live one.
C21_OnlySweepDeletes ==
    [][/\ \A r \in ledger : Kept(r) \/ ~Live(r)
       /\ (\E r \in ledger : ~Kept(r))
             => ledger' = {r \in ledger : Live(r)}]_vars

\* a revoked row has been swept while a live row stays in the table
C21_Witness ==
    /\ \E t \in 1..(nextToken - 1) : RowsOf(t) = {}
    /\ \E r \in ledger : Live(r)

\* the token value t was minted and its row is revoked or no longer there
Dead(t) ==
    /\ t \in 1..(nextToken - 1)
    /\ \A r \in RowsOf(t) : r.revokedAt # NULL

C27_RevocationNotBypassed ==
    [][\A c, d \in Calls :
         (/\ call[c].op = "refresh"
          /\ call[c].pc \in {"revoke", "generate"}
          /\ call[d].op = "logout"
          /\ call[d].token = call[c].token
          /\ call[d].pc = "done"
          /\ call[d].wrote
          /\ call'[c].pc = "done")
            => \A r \in ledger' :
                  r.token = call'[c].newToken => r.revokedAt # NULL]_vars

\* C28: under every interleaving with the sweep, no logout or rotate call
\* ends with the storage's record-not-found error: a row removed between a
\* call's read and its revocation write does not make the call fail so.
C28_NoRecordNotFound ==
    \A c \in Calls :
        call[c].op \in {"logout", "refresh"}
            => call[c].result # "RECORD_NOT_FOUND"

\* C29: a row's revocation timestamp, once set, is never changed or cleared
\* by a later step of logout, rotate or revokeAll.
C29_RevokedAtFrozen ==
    [][\A r \in ledger :
         r.revokedAt # NULL
            => \A r2 \in ledger' :
                  r2.token = r.token => r2.revokedAt = r.revokedAt]_vars

(***************************************************************************)
(* Claim about generateTokens, checked under SpecIssue.                    *)
(***************************************************************************)
\* the issuer in force
IssuerInForce ==
    IF args.env.JWT_ISSUER \in {<<>>, <<"">>} THEN "nest-project"
    ELSE args.env.JWT_ISSUER[1]

ClientIpExtracted ==
    args # Undefined /\ args.fn = "extractClientIp" /\ result # Undefined
ForwardedFor == args.request.headers.xForwardedFor
\* the text before the first comma
FirstItem(s) ==
    LET commas == {i \in DOMAIN s : s[i] = ","}
    IN IF commas = {} THEN s
       ELSE SubSeq(s, 1, (CHOOSE i \in commas : \A j \in commas : i <= j) - 1)
\* the first entry of the header, trimmed
FirstEntry ==
    Stripped(IF ForwardedFor.kind = "array" THEN ForwardedFor.items[1].str
             ELSE FirstItem(ForwardedFor.str))
\* the transport-level peer address, or the placeholder when there is none
PeerAddress ==
    IF args.request.ip = Absent THEN Unknown ELSE args.request.ip.str

\* C23 as stated: the client IP is the first entry of X-Forwarded-For
\* whenever that header is present, and the peer address only when the
\* header is absent.
C23_HeaderWheneverPresent ==
    ClientIpExtracted =>
        IF ForwardedFor # Absent THEN result = Returned(FirstEntry)
        ELSE result = Returned(PeerAddress)

\* C23: the client IP is the first entry of X-Forwarded-For (the first array
\* element, or the first comma-separated item, trimmed) whenever that header
\* is present with a non-empty value, and the transport-level peer address
\* when the header is absent or its value is the empty string.
C23_ClientIp ==
    ClientIpExtracted =>
        IF ForwardedFor # Absent /\ ForwardedFor # StringClaim(<<>>)
        THEN result = Returned(FirstEntry)
        ELSE result = Returned(PeerAddress)

\* the first of two comma-separated entries was returned, trimmed, in the
\* presence of a peer address
C23_Witness ==
    /\ ClientIpExtracted
    /\ ForwardedFor = StringClaim(<<" ", "1", ",">>)
    /\ args.request.ip = StringClaim(<<"9">>)
    /\ result = Returned(<<"1">>)

(***************************************************************************)
(* Claim about calculateExpirationDate, checked under SpecExpiration.      *)
(***************************************************************************)
ExpirationCalculated ==
    /\ args # Undefined
    /\ args.fn = "calculateExpirationDate"
    /\ result # Undefined

\* the string is <decimal integer><unit>
HasUnitForm ==
    LET s == args.expiration
    IN /\ Len(s) >= 2
       /\ \A i \in 1..(Len(s) - 1) :
             s[i] \in {"0", "1", "2", "3", "4", "5", "6", "7", "8", "9"}
       /\ s[Len(s)] \in {"s", "m", "h", "d"}

\* the milliseconds of the unit, as digits
UnitMs ==
    LET u == args.expiration[Len(args.expiration)]
    IN IF u = "s" THEN <<0, 0, 0, 1>>
       ELSE IF u = "m" THEN <<0, 0, 0, 0, 6>>
       ELSE IF u = "h" THEN <<0, 0, 0, 0, 0, 6, 3>>
       ELSE <<0, 0, 0, 0, 0, 4, 6, 8>>
SevenDaysMs == <<0, 0, 0, 0, 0, 8, 4, 0, 6>>

\* the digits of the integer, least significant first, leading zeros dropped
RECURSIVE DropLeadingZeros(_)
DropLeadingZeros(v) ==
    IF v = <<>> THEN v
    ELSE IF v[Len(v)] = 0 THEN DropLeadingZeros(SubSeq(v, 1, Len(v) - 1))
    ELSE v
IntegerPart ==
    LET k == Len(args.expiration) - 1
    IN DropLeadingZeros(
           [i \in 1..k |->
               CHOOSE d \in 0..9 : DigitChars[d + 1] = args.expiration[k + 1 - i]])

\* v * w by shift and add
RECURSIVE Product(_, _)
Product(v, w) ==
    IF w = <<>> THEN <<>>
    ELSE LET shifted == Product(v, Tail(w))
             rest == IF shifted = <<>> THEN <<>> ELSE <<0>> \o shifted
             RECURSIVE Repeat(_)
             Repeat(k) == IF k = 0 THEN <<>> ELSE PlusNumber(v, Repeat(k - 1))
         IN PlusNumber(Repeat(Head(w)), rest)

\* now + n * unit, or now + 7 days
ExpectedTime ==
    IF HasUnitForm THEN PlusNumber(args.nowMs, Product(IntegerPart, UnitMs))
    ELSE PlusNumber(args.nowMs, SevenDaysMs)

\* C24 as stated: calculateExpirationDate(s) returns now + n * unit for every
\* string <decimal integer n><unit> with unit s, m, h or d, and now + 7 days
\* for every other string.
C24_EveryInteger ==
    ExpirationCalculated => result = Returned([time |-> ExpectedTime])

\* C24: calculateExpirationDate(s) returns now + n * unit for every string
\* <decimal integer n><unit> with unit s, m, h or d (1, 60, 3600 and 86400
\* seconds) for which that time is within the range of a Date, an invalid
\* Date when it is beyond it, and now + 7 days for every other string; a
\* valid result is never earlier than now.
C24_Expiration ==
    ExpirationCalculated =>
        /\ IF NumberLeq(ExpectedTime, MaxTimeValue)
           THEN result = Returned([time |-> ExpectedTime])
           ELSE result = Returned(InvalidDate)
        /\ DOMAIN result.value = {"time"}
             => NumberLeq(args.nowMs, result.value.time)

\* fifteen hours were added to a recent clock reading
C24_Witness ==
    /\ ExpirationCalculated
    /\ args.expiration = <<"1", "5", "h">>
    /\ args.nowMs = <<0, 0, 0, 0, 0, 6, 7, 7, 5, 3, 9, 7, 1>>
    /\ result = Returned([time |-> <<0, 0, 0, 0, 0, 6, 1, 3, 6, 3, 9, 7, 1>>])

(***************************************************************************)
(* Further claim about the guard pipeline, checked under SpecPipeline.     *)
(***************************************************************************)
\* C26: the IP-restriction stage never rejects with TOKEN_MISSING: whenever
\* it runs on an endpoint that is neither public nor marked
\* skip-IP-restriction, the authenticate stage has run before it, has passed,
\* and has attached the verified claims to the request.
C26_IpStageAuthenticated ==
    \A n \in DOMAIN evaluated :
        evaluated[n].guard = "ip" =>
            /\ evaluated[n].verdict.code # "TOKEN_MISSING"
            /\ (~FlagInForce(req.isPublic)
                  /\ ~FlagInForce(req.skipIpRestriction))
                 => /\ n > 1
                    /\ evaluated[1] = [guard |-> "jwt", verdict |-> Pass]
                    /\ req.auth.user # Undefined
                    /\ user = req.auth.user

\* the IP stage looked up the allowlist for the claims of a verified bearer
\* and passed
C26_Witness ==
    /\ Len(evaluated) >= 2
    /\ evaluated[2] = [guard |-> "ip", verdict |-> Pass]
    /\ req.isPublic = NoMeta
    /\ req.skipIpRestriction = NoMeta
    /\ ipLookups = 1
    /\ user # Undefined
    /\ args = IsIpAllowedArgs(user.sub, req.clientIp)

(***************************************************************************)
(* Claim about addresses that are not IPv4 literals, checked under         *)
(* SpecAddress.                                                            *)
(***************************************************************************)
\* four segments, each a number of 0..255
IsDottedQuad(ip) == Len(ip) = 4 /\ \A j \in 1..4 : ip[j] \in 0..255

\* isIpAllowed has returned for these arguments
IpChecked == args # Undefined /\ args.fn = "isIpAllowed" /\ result # Undefined

\* the allowlist entries of the user of the call
OwnEntries == {r.ipAddress : r \in {x \in userAllowedIp : x.userId = args.userId}}

\* C30: for a client address that is not a dotted-quad IPv4 literal and a
\* user with a non-empty allowlist, isIpAllowed returns true only if an
\* entry of the user equals the address exactly; no CIDR entry admits it.
C30_ExactMatchOnly ==
    (/\ IpChecked
     /\ ~IsDottedQuad(args.ipAddress)
     /\ OwnEntries # {}
     /\ result.value)
        => SingleIp(args.ipAddress) \in OwnEntries

=========================================================================
